---- MODULE Spec2Model ----
(***************************************************************************)
(* Tournament progression engine: round-robin generation, group standings, *)
(* quarterfinal seeding and winner advancement, driven by TeamAdded and    *)
(* ScoreRegistered events over a shared match / group / tournament store.  *)
(*                                                                         *)
(* Conventions of the model                                                *)
(*   - a team is its id, a natural number; a MatchTeam is the id it        *)
(*     snapshots (names are a function of the id and are left out);        *)
(*   - NoTeam is the default-constructed Team / MatchTeam (empty id);      *)
(*   - the match table is a sequence in created_at order, the row key of   *)
(*     a match is its index (rows are never deleted by the engine);        *)
(*   - an absent optional (group id, score) is NoGroupId / NoScore.        *)
(***************************************************************************)
EXTENDS Integers, Sequences, FiniteSets, TLC

VARIABLES
    tournaments,   \* tournament table: set of tournament records
    groups,        \* group table: sequence of group records in store order
    matches,       \* match table: sequence of match documents, created_at order
    published,     \* messages sent to the tournament.score-registered queue
    alive,         \* consumer process -> TRUE while its listeners run
    work,          \* consumer process -> the handler invocation in progress
    last           \* the last completed operation and what it returned

vars == <<tournaments, groups, matches, published, alive, work, last>>

----------------------------------------------------------------------------
(* Values *)

NoTeam == 0
GarbageTeam == -1
NoGroupId == ""
NoScore == <<>>

NoTournament == [id |-> "", numberOfGroups |-> 0, maxTeamsPerGroup |-> 0]
NoGroup == [id |-> "", tournamentId |-> "", teams |-> <<>>]

Ok == "ok"
ErrTournament == "Tournament doesn't exist"
ErrGroup == "Group doesn't exist"
ErrGroupTournament == "Group doesn't belong to this tournament"
ErrMatchesExist == "Matches already generated for this group"
ErrNotFull == "Group is not full yet. Cannot generate matches."
ErrNotCompleted == "Not all group stage matches are completed"
ErrQuarterfinalsExist == "Quarterfinals already generated"
\* mutation of ErrFewGroups: too few groups reported as an unfinished group stage
ErrFewGroupsMerged == "Not all group stage matches are completed"
ErrFewGroups == "Tournament must have at least 4 groups for playoffs"
ErrInvalidRound == "Invalid round for advancement"
ErrNotEnoughMatches(round) == "Not enough matches in " \o round
ErrNoWinners == "Not all matches have winners"
ErrMatch == "Match doesn't exist"
ErrMatchTournament == "Match doesn't belong to this tournament"
ErrNegative == "Score cannot be negative"
ErrRange == "Score must be between 0 and 10"
ErrTies == "Ties are not allowed in playoff rounds"
Crashed == "crashed"
Thrown == "exception"

Rounds == {"regular", "quarterfinals", "semifinals", "finals"}

----------------------------------------------------------------------------
(* Sequences *)

Range(s) == {s[i] : i \in 1..Len(s)}

RECURSIVE SumSeq(_)
SumSeq(s) == IF s = <<>> THEN 0 ELSE Head(s) + SumSeq(Tail(s))

Min2(a, b) == IF a < b THEN a ELSE b

----------------------------------------------------------------------------
(* domain::Match *)

\* the value of a generated match: pending, no score
NewMatch(id, tournamentId, groupId, home, visitor, round) ==
    [id |-> id, tournamentId |-> tournamentId, groupId |-> groupId,
     home |-> home, visitor |-> visitor, round |-> round,
     status |-> "pending", score |-> NoScore]

GetWinnerId(m) ==
    IF m.score = NoScore THEN NoTeam
    ELSE IF m.score[1] > m.score[2] THEN m.home
    ELSE IF m.score[2] > m.score[1] THEN m.visitor
    ELSE NoTeam

\* mutation of SetScore: the status stays as it was
SetScoreOnly(m, score) == [m EXCEPT !.score = score]

SetScore(m, score) == [m EXCEPT !.score = score, !.status = "played"]

----------------------------------------------------------------------------
(* Repositories: the reads take the table they read as argument *)

ReadById(ts, id) ==
    IF \E t \in ts : t.id = id THEN CHOOSE t \in ts : t.id = id ELSE NoTournament

FindByTournamentId(gs, tournamentId) ==
    SelectSeq(gs, LAMBDA g : g.tournamentId = tournamentId)

FindByTournamentIdAndGroupId(gs, tournamentId, groupId) ==
    LET found == SelectSeq(gs, LAMBDA g : g.id = groupId /\ g.tournamentId = tournamentId)
    IN  IF found = <<>> THEN NoGroup ELSE found[1]

FindByTournamentIdAndRound(ms, tournamentId, round) ==
    SelectSeq(ms, LAMBDA m : m.tournamentId = tournamentId /\ m.round = round)

FindByGroupId(ms, groupId) ==
    SelectSeq(ms, LAMBDA m : m.groupId = groupId)

ExistsByGroupId(ms, groupId) == Len(FindByGroupId(ms, groupId)) > 0

----------------------------------------------------------------------------
(* Match document ids, as the generators build them; a row read back from  *)
(* the table carries its row key as id (MatchRepository::ReadById).        *)

RoundRobinId(tournamentId, groupId, home, visitor) == <<tournamentId, groupId, home, visitor>>
PlayoffId(tournamentId, tag, n) == <<tournamentId, tag, n, 0>>
RowId(k) == <<"", "row", k, 0>>

----------------------------------------------------------------------------
(* PlayoffGenerationService: standings *)

\* mutation of AreAllGroupMatchesCompleted: one played regular match is enough
AreAllGroupMatchesCompletedSome(ms, tournamentId) ==
    LET regular == FindByTournamentIdAndRound(ms, tournamentId, "regular")
    IN  /\ regular # <<>>
        /\ \E i \in 1..Len(regular) : regular[i].status = "played"

AreAllGroupMatchesCompleted(ms, tournamentId) ==
    LET regular == FindByTournamentIdAndRound(ms, tournamentId, "regular")
    IN  /\ regular # <<>>
        /\ \A i \in 1..Len(regular) : regular[i].status = "played"

TeamStanding(team, wins, goalsFor, goalsAgainst) ==
    [team |-> team, wins |-> wins, goalsFor |-> goalsFor,
     goalsAgainst |-> goalsAgainst, goalDifference |-> goalsFor - goalsAgainst]

\* mutation of StandingBefore: the wins alone decide
StandingBeforeByWins(a, b) == a.wins > b.wins

\* the comparator handed to std::sort: TRUE when a goes before b
StandingBefore(a, b) ==
    IF a.wins # b.wins THEN a.wins > b.wins
    ELSE IF a.goalDifference # b.goalDifference THEN a.goalDifference > b.goalDifference
    ELSE a.goalsFor > b.goalsFor

\* std::sort over the entries of the std::map (keys K, entry st[k]): every
\* arrangement in which no entry stands after one it goes before. std::sort
\* is not stable, so entries equal under the comparator come in any order.
RECURSIVE SortOutcomes(_, _)
SortOutcomes(K, st) ==
    IF K = {} THEN {<<>>}
    ELSE UNION {{<<st[k]>> \o rest : rest \in SortOutcomes(K \ {k}, st)} :
                k \in {x \in K : \A y \in K : ~StandingBefore(st[y], st[x])}}

\* mutation of StandingsMap: the goals scored of a team are those of its last
\* played match in the list (assignment in place of +=)
StandingsMapOverwritten(ms, group) ==
    LET played == SelectSeq(FindByGroupId(ms, group.id),
                            LAMBDA m : m.status = "played" /\ m.score # NoScore)
        n == Len(played)
        roster == Range(group.teams)
        keys == roster \cup {played[i].home : i \in 1..n} \cup {played[i].visitor : i \in 1..n}
        of(k) == {i \in 1..n : played[i].home = k \/ played[i].visitor = k}
        latest(k) == CHOOSE i \in of(k) : \A j \in of(k) : j <= i
        goalsFor(k) == IF of(k) = {} THEN 0
                       ELSE IF played[latest(k)].home = k THEN played[latest(k)].score[1]
                       ELSE played[latest(k)].score[2]
        goalsAgainst(k) == SumSeq([i \in 1..n |->
                          (IF played[i].home = k THEN played[i].score[2] ELSE 0)
                        + (IF played[i].visitor = k THEN played[i].score[1] ELSE 0)])
        wins(k) == SumSeq([i \in 1..n |->
                          IF played[i].score[1] > played[i].score[2]
                          THEN (IF played[i].home = k THEN 1 ELSE 0)
                          ELSE IF played[i].score[2] > played[i].score[1]
                          THEN (IF played[i].visitor = k THEN 1 ELSE 0)
                          ELSE 0])
    IN  [k \in keys |-> TeamStanding(IF k \in roster THEN k ELSE NoTeam,
                                     wins(k), goalsFor(k), goalsAgainst(k))]

\* the std::map<std::string, TeamStanding> after the two loops: an entry per
\* roster team, and operator[] adds a default entry (team = NoTeam) for a
\* home or visitor id of a played match that the roster does not hold
StandingsMap(ms, group) ==
    LET played == SelectSeq(FindByGroupId(ms, group.id),
                            LAMBDA m : m.status = "played" /\ m.score # NoScore)
        n == Len(played)
        roster == Range(group.teams)
        keys == roster \cup {played[i].home : i \in 1..n} \cup {played[i].visitor : i \in 1..n}
        goalsFor(k) == SumSeq([i \in 1..n |->
                          (IF played[i].home = k THEN played[i].score[1] ELSE 0)
                        + (IF played[i].visitor = k THEN played[i].score[2] ELSE 0)])
        goalsAgainst(k) == SumSeq([i \in 1..n |->
                          (IF played[i].home = k THEN played[i].score[2] ELSE 0)
                        + (IF played[i].visitor = k THEN played[i].score[1] ELSE 0)])
        wins(k) == SumSeq([i \in 1..n |->
                          IF played[i].score[1] > played[i].score[2]
                          THEN (IF played[i].home = k THEN 1 ELSE 0)
                          ELSE IF played[i].score[2] > played[i].score[1]
                          THEN (IF played[i].visitor = k THEN 1 ELSE 0)
                          ELSE 0])
    IN  [k \in keys |-> TeamStanding(IF k \in roster THEN k ELSE NoTeam,
                                     wins(k), goalsFor(k), goalsAgainst(k))]

\* the set of vectors CalculateGroupStandings can return
CalculateGroupStandings(gs, ms, tournamentId, groupId) ==
    LET group == FindByTournamentIdAndGroupId(gs, tournamentId, groupId)
    IN  IF group = NoGroup THEN {<<>>}
        ELSE LET st == StandingsMap(ms, group)
             IN  SortOutcomes(DOMAIN st, st)

\* the vector handed to std::sort: the entries of the std::map (keys K, entry
\* st[k]) in key order
RECURSIVE StandingsVector(_, _)
StandingsVector(K, st) ==
    IF K = {} THEN <<>>
    ELSE LET k == CHOOSE x \in K : \A y \in K : x <= y
         IN  <<st[k]>> \o StandingsVector(K \ {k}, st)

GetTopTeams(standings, count) ==
    [i \in 1..Min2(count, Len(standings)) |-> standings[i].team]

----------------------------------------------------------------------------
(* What a service call does: the value it returns (Ok or the error string; *)
(* Crashed / Thrown when it does not return) and the matches it hands to   *)
(* MatchRepository::Create, in call order.                                 *)

Outcome(result, created) == [result |-> result, created |-> created]

\* every way to pick one element from each set of a sequence of sets
RECURSIVE Choices(_)
Choices(sets) ==
    IF sets = <<>> THEN {<<>>}
    ELSE {<<x>> \o rest : x \in Head(sets), rest \in Choices(Tail(sets))}

----------------------------------------------------------------------------
(* PlayoffGenerationService::GenerateQuarterfinals *)

\* std::vector::operator[] at a 0-based index: past the end it is undefined
\* behaviour; a read that comes back at all yields GarbageTeam
At(v, i) == IF i + 1 <= Len(v) THEN v[i + 1] ELSE GarbageTeam

\* mutation of QuarterfinalPairs: group D's and group A's runners-up exchanged
QuarterfinalPairsStraight(groupTopTeams) ==
    IF Len(groupTopTeams) >= 4
    THEN << <<At(groupTopTeams[1], 0), At(groupTopTeams[1], 1)>>,
            <<At(groupTopTeams[2], 0), At(groupTopTeams[3], 1)>>,
            <<At(groupTopTeams[3], 0), At(groupTopTeams[2], 1)>>,
            <<At(groupTopTeams[4], 0), At(groupTopTeams[4], 1)>> >>
    ELSE <<>>

\* the four pairs pushed for groupTopTeams.size() >= 4
QuarterfinalPairs(groupTopTeams) ==
    IF Len(groupTopTeams) >= 4
    THEN << <<At(groupTopTeams[1], 0), At(groupTopTeams[4], 1)>>,
            <<At(groupTopTeams[2], 0), At(groupTopTeams[3], 1)>>,
            <<At(groupTopTeams[3], 0), At(groupTopTeams[2], 1)>>,
            <<At(groupTopTeams[4], 0), At(groupTopTeams[1], 1)>> >>
    ELSE <<>>

\* TRUE when building the pairs reads past the end of a top-teams vector
ReadsPastEnd(groupTopTeams) ==
    /\ Len(groupTopTeams) >= 4
    /\ \E i \in 1..4 : Len(groupTopTeams[i]) < 2

\* mutation of QuarterfinalMatches: the last pair is dropped
QuarterfinalMatchesShort(tournamentId, quarterfinalPairs) ==
    [i \in 1..(Len(quarterfinalPairs) - 1) |->
        NewMatch(PlayoffId(tournamentId, "qf", i), tournamentId, NoGroupId,
                 quarterfinalPairs[i][1], quarterfinalPairs[i][2], "quarterfinals")]

QuarterfinalMatches(tournamentId, quarterfinalPairs) ==
    [i \in 1..Len(quarterfinalPairs) |->
        NewMatch(PlayoffId(tournamentId, "qf", i), tournamentId, NoGroupId,
                 quarterfinalPairs[i][1], quarterfinalPairs[i][2], "quarterfinals")]

\* the set of outcomes of one call
GenerateQuarterfinals(ts, gs, ms, tournamentId) ==
    LET tournament == ReadById(ts, tournamentId)
        existingQuarterfinals == FindByTournamentIdAndRound(ms, tournamentId, "quarterfinals")
        grps == FindByTournamentId(gs, tournamentId)
        tops == Choices([i \in 1..Len(grps) |->
                    {GetTopTeams(st, 2) :
                        st \in CalculateGroupStandings(gs, ms, tournamentId, grps[i].id)}])
    IN  IF tournament = NoTournament THEN {Outcome(ErrTournament, <<>>)}
        ELSE IF ~AreAllGroupMatchesCompleted(ms, tournamentId)
             THEN {Outcome(ErrNotCompleted, <<>>)}
        ELSE IF existingQuarterfinals # <<>> THEN {Outcome(ErrQuarterfinalsExist, <<>>)}
        ELSE IF Len(grps) < 4 THEN {Outcome(ErrFewGroups, <<>>)}
        ELSE UNION {
               IF ReadsPastEnd(groupTopTeams)
               THEN {Outcome(Crashed, <<>>), Outcome(Thrown, <<>>),
                     Outcome(Ok, QuarterfinalMatches(tournamentId,
                                                     QuarterfinalPairs(groupTopTeams)))}
               ELSE {Outcome(Ok, QuarterfinalMatches(tournamentId,
                                                     QuarterfinalPairs(groupTopTeams)))}
               : groupTopTeams \in tops}

----------------------------------------------------------------------------
(* PlayoffGenerationService::AdvanceWinners *)

\* the inner loop over completedMatches: the MatchTeam of the last match
\* that teamId won, or the default MatchTeam when it won none
RECURSIVE WinnerTeam(_, _, _)
WinnerTeam(completedMatches, teamId, found) ==
    IF completedMatches = <<>> THEN found
    ELSE LET match == Head(completedMatches)
         IN  WinnerTeam(Tail(completedMatches), teamId,
                        IF GetWinnerId(match) = teamId
                        THEN (IF match.home = teamId THEN match.home ELSE match.visitor)
                        ELSE found)

\* for (i = 0; i < winners.size(); i += 2): i is 0-based
RECURSIVE NextRoundMatches(_, _, _, _, _)

\* mutation of NextRoundMatches: home and visitor exchanged
RECURSIVE NextRoundMatchesSwapped(_, _, _, _, _)
NextRoundMatchesSwapped(tournamentId, nextRound, completedMatches, winners, i) ==
    IF i >= Len(winners) \/ i + 1 >= Len(winners) THEN <<>>
    ELSE <<NewMatch(PlayoffId(tournamentId, nextRound, (i \div 2) + 1), tournamentId,
                    NoGroupId,
                    WinnerTeam(completedMatches, winners[i + 2], NoTeam),
                    WinnerTeam(completedMatches, winners[i + 1], NoTeam),
                    nextRound)>>
         \o NextRoundMatchesSwapped(tournamentId, nextRound, completedMatches,
                                    winners, i + 2)

NextRoundMatches(tournamentId, nextRound, completedMatches, winners, i) ==
    IF i >= Len(winners) \/ i + 1 >= Len(winners) THEN <<>>
    ELSE <<NewMatch(PlayoffId(tournamentId, nextRound, (i \div 2) + 1), tournamentId,
                    NoGroupId,
                    WinnerTeam(completedMatches, winners[i + 1], NoTeam),
                    WinnerTeam(completedMatches, winners[i + 2], NoTeam),
                    nextRound)>>
         \o NextRoundMatches(tournamentId, nextRound, completedMatches, winners, i + 2)

\* mutation of AdvanceWinners: no look at the next round before creating it
AdvanceWinnersUnguarded(ts, ms, tournamentId, round) ==
    LET tournament == ReadById(ts, tournamentId)
        nextRound == IF round = "quarterfinals" THEN "semifinals" ELSE "finals"
        matchesNeeded == IF round = "quarterfinals" THEN 4 ELSE 2
        completedMatches == FindByTournamentIdAndRound(ms, tournamentId, round)
        n == Len(completedMatches)
        withWinner == SelectSeq(completedMatches, LAMBDA m : GetWinnerId(m) # NoTeam)
        winners == [i \in 1..Len(withWinner) |-> GetWinnerId(withWinner[i])]
    IN  IF tournament = NoTournament THEN Outcome(ErrTournament, <<>>)
        ELSE IF round \notin {"quarterfinals", "semifinals"}
             THEN Outcome(ErrInvalidRound, <<>>)
        ELSE IF n < matchesNeeded THEN Outcome(ErrNotEnoughMatches(round), <<>>)
        ELSE IF \E i \in 1..n : completedMatches[i].status # "played"
             THEN Outcome(Ok, <<>>)
        ELSE IF Len(winners) < matchesNeeded THEN Outcome(ErrNoWinners, <<>>)
        ELSE Outcome(Ok, NextRoundMatches(tournamentId, nextRound, completedMatches,
                                          winners, 0))

\* mutation of AdvanceWinners: four matches are needed in either round
AdvanceWinnersFour(ts, ms, tournamentId, round) ==
    LET tournament == ReadById(ts, tournamentId)
        nextRound == IF round = "quarterfinals" THEN "semifinals" ELSE "finals"
        matchesNeeded == 4
        completedMatches == FindByTournamentIdAndRound(ms, tournamentId, round)
        n == Len(completedMatches)
        withWinner == SelectSeq(completedMatches, LAMBDA m : GetWinnerId(m) # NoTeam)
        winners == [i \in 1..Len(withWinner) |-> GetWinnerId(withWinner[i])]
        existingNextRound == FindByTournamentIdAndRound(ms, tournamentId, nextRound)
    IN  IF tournament = NoTournament THEN Outcome(ErrTournament, <<>>)
        ELSE IF round \notin {"quarterfinals", "semifinals"}
             THEN Outcome(ErrInvalidRound, <<>>)
        ELSE IF n < matchesNeeded THEN Outcome(ErrNotEnoughMatches(round), <<>>)
        ELSE IF \E i \in 1..n : completedMatches[i].status # "played"
             THEN Outcome(Ok, <<>>)
        ELSE IF Len(winners) < matchesNeeded THEN Outcome(ErrNoWinners, <<>>)
        ELSE IF existingNextRound # <<>> THEN Outcome(Ok, <<>>)
        ELSE Outcome(Ok, NextRoundMatches(tournamentId, nextRound, completedMatches,
                                          winners, 0))

\* mutation of AdvanceWinners: the winners there are so far are paired, with
\* matches of the round still pending
AdvanceWinnersEarly(ts, ms, tournamentId, round) ==
    LET tournament == ReadById(ts, tournamentId)
        nextRound == IF round = "quarterfinals" THEN "semifinals" ELSE "finals"
        matchesNeeded == IF round = "quarterfinals" THEN 4 ELSE 2
        completedMatches == FindByTournamentIdAndRound(ms, tournamentId, round)
        n == Len(completedMatches)
        withWinner == SelectSeq(completedMatches, LAMBDA m : GetWinnerId(m) # NoTeam)
        winners == [i \in 1..Len(withWinner) |-> GetWinnerId(withWinner[i])]
        existingNextRound == FindByTournamentIdAndRound(ms, tournamentId, nextRound)
    IN  IF tournament = NoTournament THEN Outcome(ErrTournament, <<>>)
        ELSE IF round \notin {"quarterfinals", "semifinals"}
             THEN Outcome(ErrInvalidRound, <<>>)
        ELSE IF n < matchesNeeded THEN Outcome(ErrNotEnoughMatches(round), <<>>)
        ELSE IF existingNextRound # <<>> THEN Outcome(Ok, <<>>)
        ELSE Outcome(Ok, NextRoundMatches(tournamentId, nextRound, completedMatches,
                                          winners, 0))

\* mutation of AdvanceWinners: every round but quarterfinals is advanced as
\* the semifinals are
AdvanceWinnersAnyRound(ts, ms, tournamentId, round) ==
    LET tournament == ReadById(ts, tournamentId)
        nextRound == IF round = "quarterfinals" THEN "semifinals" ELSE "finals"
        matchesNeeded == IF round = "quarterfinals" THEN 4 ELSE 2
        from == IF round = "quarterfinals" THEN round ELSE "semifinals"
        completedMatches == FindByTournamentIdAndRound(ms, tournamentId, from)
        n == Len(completedMatches)
        withWinner == SelectSeq(completedMatches, LAMBDA m : GetWinnerId(m) # NoTeam)
        winners == [i \in 1..Len(withWinner) |-> GetWinnerId(withWinner[i])]
        existingNextRound == FindByTournamentIdAndRound(ms, tournamentId, nextRound)
    IN  IF tournament = NoTournament THEN Outcome(ErrTournament, <<>>)
        ELSE IF n < matchesNeeded THEN Outcome(ErrNotEnoughMatches(round), <<>>)
        ELSE IF \E i \in 1..n : completedMatches[i].status # "played"
             THEN Outcome(Ok, <<>>)
        ELSE IF Len(winners) < matchesNeeded THEN Outcome(ErrNoWinners, <<>>)
        ELSE IF existingNextRound # <<>> THEN Outcome(Ok, <<>>)
        ELSE Outcome(Ok, NextRoundMatches(tournamentId, nextRound, completedMatches,
                                          winners, 0))

AdvanceWinners(ts, ms, tournamentId, round) ==
    LET tournament == ReadById(ts, tournamentId)
        nextRound == IF round = "quarterfinals" THEN "semifinals" ELSE "finals"
        matchesNeeded == IF round = "quarterfinals" THEN 4 ELSE 2
        completedMatches == FindByTournamentIdAndRound(ms, tournamentId, round)
        n == Len(completedMatches)
        withWinner == SelectSeq(completedMatches, LAMBDA m : GetWinnerId(m) # NoTeam)
        winners == [i \in 1..Len(withWinner) |-> GetWinnerId(withWinner[i])]
        existingNextRound == FindByTournamentIdAndRound(ms, tournamentId, nextRound)
    IN  IF tournament = NoTournament THEN Outcome(ErrTournament, <<>>)
        ELSE IF round \notin {"quarterfinals", "semifinals"}
             THEN Outcome(ErrInvalidRound, <<>>)
        ELSE IF n < matchesNeeded THEN Outcome(ErrNotEnoughMatches(round), <<>>)
        ELSE IF \E i \in 1..n : completedMatches[i].status # "played"
             THEN Outcome(Ok, <<>>)
        ELSE IF Len(winners) < matchesNeeded THEN Outcome(ErrNoWinners, <<>>)
        ELSE IF existingNextRound # <<>> THEN Outcome(Ok, <<>>)
        ELSE Outcome(Ok, NextRoundMatches(tournamentId, nextRound, completedMatches,
                                          winners, 0))

----------------------------------------------------------------------------
(* MatchGenerationService *)

\* mutation of IsGroupReadyForMatches: a group is ready only past its capacity
IsGroupReadyForMatchesStrict(ts, gs, ms, tournamentId, groupId) ==
    LET tournament == ReadById(ts, tournamentId)
        group == FindByTournamentIdAndGroupId(gs, tournamentId, groupId)
    IN  IF ExistsByGroupId(ms, groupId) THEN FALSE
        ELSE IF tournament = NoTournament THEN FALSE
        ELSE IF group = NoGroup THEN FALSE
        ELSE Len(group.teams) > tournament.maxTeamsPerGroup

IsGroupReadyForMatches(ts, gs, ms, tournamentId, groupId) ==
    LET tournament == ReadById(ts, tournamentId)
        group == FindByTournamentIdAndGroupId(gs, tournamentId, groupId)
    IN  IF ExistsByGroupId(ms, groupId) THEN FALSE
        ELSE IF tournament = NoTournament THEN FALSE
        ELSE IF group = NoGroup THEN FALSE
        ELSE Len(group.teams) >= tournament.maxTeamsPerGroup

\* mutation of RoundRobinRow: the matches carry no group id
RoundRobinRowUngrouped(tournamentId, groupId, teams, i, j) ==
    LET visitors == SelectSeq([k \in 1..Len(teams) |-> k], LAMBDA k : k >= j /\ k # i)
    IN  [n \in 1..Len(visitors) |->
            NewMatch(RoundRobinId(tournamentId, groupId, teams[i], teams[visitors[n]]),
                     tournamentId, NoGroupId, teams[i], teams[visitors[n]], "regular")]

\* the inner loop for home index i, from visitor index j on (1-based): a
\* match for every visitor index but i
RoundRobinRow(tournamentId, groupId, teams, i, j) ==
    LET visitors == SelectSeq([k \in 1..Len(teams) |-> k], LAMBDA k : k >= j /\ k # i)
    IN  [n \in 1..Len(visitors) |->
            NewMatch(RoundRobinId(tournamentId, groupId, teams[i], teams[visitors[n]]),
                     tournamentId, groupId, teams[i], teams[visitors[n]], "regular")]

\* mutation of RoundRobinLoop: the inner loop starts after i
RECURSIVE RoundRobinLoopSingle(_, _, _, _, _)
RoundRobinLoopSingle(tournamentId, groupId, teams, i, j) ==
    IF i > Len(teams) THEN <<>>
    ELSE RoundRobinRow(tournamentId, groupId, teams, i, i + 1)
         \o RoundRobinLoopSingle(tournamentId, groupId, teams, i + 1, 1)

\* the two nested loops over teams, from home index i and visitor index j on
RECURSIVE RoundRobinLoop(_, _, _, _, _)
RoundRobinLoop(tournamentId, groupId, teams, i, j) ==
    IF i > Len(teams) THEN <<>>
    ELSE RoundRobinRow(tournamentId, groupId, teams, i, j)
         \o RoundRobinLoop(tournamentId, groupId, teams, i + 1, 1)

\* mutation of GenerateRoundRobinMatches: no look at the group's matches
GenerateRoundRobinMatchesUnguarded(ts, gs, ms, tournamentId, groupId) ==
    LET tournament == ReadById(ts, tournamentId)
        group == FindByTournamentIdAndGroupId(gs, tournamentId, groupId)
    IN  IF tournament = NoTournament THEN Outcome(ErrTournament, <<>>)
        ELSE IF group = NoGroup THEN Outcome(ErrGroup, <<>>)
        ELSE IF group.tournamentId # tournamentId THEN Outcome(ErrGroupTournament, <<>>)
        ELSE IF Len(group.teams) < tournament.maxTeamsPerGroup THEN Outcome(ErrNotFull, <<>>)
        ELSE Outcome(Ok, RoundRobinLoop(tournamentId, groupId, group.teams, 1, 1))

GenerateRoundRobinMatches(ts, gs, ms, tournamentId, groupId) ==
    LET tournament == ReadById(ts, tournamentId)
        group == FindByTournamentIdAndGroupId(gs, tournamentId, groupId)
    IN  IF tournament = NoTournament THEN Outcome(ErrTournament, <<>>)
        ELSE IF group = NoGroup THEN Outcome(ErrGroup, <<>>)
        ELSE IF group.tournamentId # tournamentId THEN Outcome(ErrGroupTournament, <<>>)
        ELSE IF ExistsByGroupId(ms, groupId) THEN Outcome(ErrMatchesExist, <<>>)
        ELSE IF Len(group.teams) < tournament.maxTeamsPerGroup THEN Outcome(ErrNotFull, <<>>)
        ELSE Outcome(Ok, RoundRobinLoop(tournamentId, groupId, group.teams, 1, 1))

----------------------------------------------------------------------------
(* MatchDelegate::UpdateScore: the value returned for a call on the match  *)
(* table ms (row keys 1..Len(ms)).                                         *)

\* mutation of UpdateScoreResult: no check of ties
UpdateScoreResultTiesAllowed(ts, ms, tournamentId, matchId, score) ==
    IF ReadById(ts, tournamentId) = NoTournament THEN ErrTournament
    ELSE IF matchId \notin 1..Len(ms) THEN ErrMatch
    ELSE IF ms[matchId].tournamentId # tournamentId THEN ErrMatchTournament
    ELSE IF score[1] < 0 \/ score[2] < 0 THEN ErrNegative
    ELSE IF score[1] > 10 \/ score[2] > 10 THEN ErrRange
    ELSE Ok

\* mutation of UpdateScoreResult: the upper limit is checked on the home score only
UpdateScoreResultHomeRange(ts, ms, tournamentId, matchId, score) ==
    IF ReadById(ts, tournamentId) = NoTournament THEN ErrTournament
    ELSE IF matchId \notin 1..Len(ms) THEN ErrMatch
    ELSE IF ms[matchId].tournamentId # tournamentId THEN ErrMatchTournament
    ELSE IF score[1] < 0 \/ score[2] < 0 THEN ErrNegative
    ELSE IF score[1] > 10 THEN ErrRange
    ELSE IF score[1] = score[2] /\ ms[matchId].round # "regular" THEN ErrTies
    ELSE Ok

UpdateScoreResult(ts, ms, tournamentId, matchId, score) ==
    IF ReadById(ts, tournamentId) = NoTournament THEN ErrTournament
    ELSE IF matchId \notin 1..Len(ms) THEN ErrMatch
    ELSE IF ms[matchId].tournamentId # tournamentId THEN ErrMatchTournament
    ELSE IF score[1] < 0 \/ score[2] < 0 THEN ErrNegative
    ELSE IF score[1] > 10 \/ score[2] > 10 THEN ErrRange
    ELSE IF score[1] = score[2] /\ ms[matchId].round # "regular" THEN ErrTies
    ELSE Ok

\* the document MatchRepository::Update writes: the row read back (its id is
\* the row key) with the score set
UpdatedMatch(ms, matchId, score) ==
    SetScore([ms[matchId] EXCEPT !.id = RowId(matchId)], score)

\* mutation of ScoreRegistered: the message names no winner
ScoreRegisteredNoWinner(tournamentId, matchId, match) ==
    [tournamentId |-> tournamentId, matchId |-> matchId, round |-> match.round,
     score |-> match.score, winnerId |-> NoTeam]

\* the message sent to tournament.score-registered
ScoreRegistered(tournamentId, matchId, match) ==
    [tournamentId |-> tournamentId, matchId |-> matchId, round |-> match.round,
     score |-> match.score, winnerId |-> GetWinnerId(match)]

NoMessage ==
    [tournamentId |-> "", matchId |-> 0, round |-> "", score |-> NoScore,
     winnerId |-> NoTeam]

\* of a message, the fields the consumer extracts
Extracted(message) ==
    [tournamentId |-> message.tournamentId, matchId |-> message.matchId,
     round |-> message.round]

----------------------------------------------------------------------------
(* The universe of the model *)

Consumers == {"c1", "c2"}
TournamentIds == {"T0", "T1", "T2"}
\* the (tournament, group) pairs TeamAdded events arrive for
TeamAddedEvents ==
    {<<"T1", "G1">>, <<"T2", "H1">>, <<"T2", "H2">>, <<"T1", "G0">>, <<"T0", "H1">>}
\* the rounds the direct calls of AdvanceWinners name
RoundInputs == {"regular", "quarterfinals", "semifinals", "finals"}
ScoreInputs == {<<1, 0>>, <<0, 1>>, <<1, 1>>}

\* what `last` holds: the operation (op), the service it called (call, "none"
\* when it called none), its inputs, the value returned, the matches handed to
\* MatchRepository::Create, the message published, and whether it handled the
\* same event as the operation before it (repeat) and, when it did, how many
\* matches that operation created (before); for a standings computation the
\* vector returned (standings); for UpdateTeams the team list of the request
\* (teams)
Record(op, call, tournamentId, groupId, round, result, created) ==
    [op |-> op, call |-> call, tournamentId |-> tournamentId, groupId |-> groupId,
     round |-> round, matchId |-> 0, score |-> NoScore, result |-> result,
     created |-> created, message |-> NoMessage, repeat |-> FALSE, before |-> 0,
     standings |-> <<>>, teams |-> <<>>]

NoRecord == Record("none", "none", "", "", "", Ok, <<>>)

\* a listener thread: waiting for a message (idle), past the handler's own
\* check (checked), or in the service's loop of Create calls (creating)
Idle == [pc |-> "idle", pending |-> <<>>, record |-> NoRecord]

Group(id, tournamentId, teams) == [id |-> id, tournamentId |-> tournamentId, teams |-> teams]
Tournament(id, numberOfGroups, maxTeamsPerGroup) ==
    [id |-> id, numberOfGroups |-> numberOfGroups, maxTeamsPerGroup |-> maxTeamsPerGroup]

\* tables of results: the lower team id wins 1-0, the higher team id wins
\* 1-0, every match a 1-1 draw
LowerWins == "lower wins"
HigherWins == "higher wins"
AllDraw == "all draw"

ScoreOf(table, home, visitor) ==
    IF table = AllDraw THEN <<1, 1>>
    ELSE IF (table = LowerWins) = (home < visitor) THEN <<1, 0>>
    ELSE <<0, 1>>

\* a whole double round robin of a group, every match played with the score
\* the table gives for (home, visitor)
PlayedRoundRobin(tournamentId, groupId, teams, table) ==
    LET ms == RoundRobinLoop(tournamentId, groupId, teams, 1, 1)
    IN  [i \in 1..Len(ms) |-> SetScore(ms[i], ScoreOf(table, ms[i].home, ms[i].visitor))]

\* the same round robin with its last match still pending
OpenRoundRobin(tournamentId, groupId, teams, table) ==
    LET ms == RoundRobinLoop(tournamentId, groupId, teams, 1, 1)
    IN  [i \in 1..Len(ms) |->
            IF i < Len(ms) THEN SetScore(ms[i], ScoreOf(table, ms[i].home, ms[i].visitor))
            ELSE ms[i]]

\* a whole double round robin of a group, match i played with scores[i]
PlayedWith(tournamentId, groupId, teams, scores) ==
    LET ms == RoundRobinLoop(tournamentId, groupId, teams, 1, 1)
    IN  [i \in 1..Len(ms) |-> SetScore(ms[i], scores[i])]

\* rows as the table holds them: a played row was written by UpdateScore
Stored(ms) ==
    [i \in 1..Len(ms) |->
        IF ms[i].status = "played" THEN [ms[i] EXCEPT !.id = RowId(i)] ELSE ms[i]]

\* the messages UpdateScore has sent for the played rows of ms
PublishedFor(ms) ==
    {[tournamentId |-> ms[i].tournamentId, matchId |-> i, round |-> ms[i].round] :
        i \in {j \in 1..Len(ms) : ms[j].status = "played"}}

----------------------------------------------------------------------------------------------------------------------------------------
(* The handlers and calls, each run to completion in one step.             *)

Handlers == {"TeamAdded", "ScoreRegistered"}

\* r with its repeat flag: the operation before it handled the same event
\* and ran to its end
Stamp(r) ==
    LET same == /\ r.op \in Handlers
                /\ last.op = r.op
                /\ last.tournamentId = r.tournamentId
                /\ last.groupId = r.groupId
                /\ last.round = r.round
                /\ last.result \notin {Crashed, Thrown}
    IN  [r EXCEPT !.repeat = same, !.before = IF same THEN Len(last.created) ELSE 0]

\* what the end of a service call leaves behind in a consumer: a crash ends
\* the process, an exception is caught in onMessage
\* mutation of Finish: the oldest row of the table is lost when matches are created
FinishDropping(c, op, call, tournamentId, groupId, round, o) ==
    /\ matches' = IF o.created = <<>> THEN matches
                  ELSE SubSeq(matches, 2, Len(matches)) \o o.created
    /\ alive' = IF o.result = Crashed THEN [alive EXCEPT ![c] = FALSE] ELSE alive
    /\ last' = Stamp(Record(op, call, tournamentId, groupId, round, o.result, o.created))
    /\ UNCHANGED <<tournaments, groups, published, work>>

Finish(c, op, call, tournamentId, groupId, round, o) ==
    /\ matches' = matches \o o.created
    /\ alive' = IF o.result = Crashed THEN [alive EXCEPT ![c] = FALSE] ELSE alive
    /\ last' = Stamp(Record(op, call, tournamentId, groupId, round, o.result, o.created))
    /\ UNCHANGED <<tournaments, groups, published, work>>

Skip(op, tournamentId, groupId, round) ==
    /\ last' = Stamp(Record(op, "none", tournamentId, groupId, round, Ok, <<>>))
    /\ UNCHANGED <<tournaments, groups, matches, published, alive, work>>

\* TeamAddedConsumer::ProcessTeamAddedEvent
ProcessTeamAddedEvent(c, tournamentId, groupId) ==
    /\ alive[c]
    /\ work[c].pc = "idle"
    /\ IF IsGroupReadyForMatches(tournaments, groups, matches, tournamentId, groupId)
       THEN Finish(c, "TeamAdded", "GenerateRoundRobinMatches", tournamentId, groupId, "",
                   GenerateRoundRobinMatches(tournaments, groups, matches,
                                             tournamentId, groupId))
       ELSE Skip("TeamAdded", tournamentId, groupId, "")

\* ScoreRegisteredConsumer::ProcessScoreRegisteredEvent
ProcessScoreRegisteredEvent(c, tournamentId, round) ==
    /\ alive[c]
    /\ work[c].pc = "idle"
    /\ IF round = "regular"
       THEN IF AreAllGroupMatchesCompleted(matches, tournamentId)
            THEN \E o \in GenerateQuarterfinals(tournaments, groups, matches, tournamentId) :
                    Finish(c, "ScoreRegistered", "GenerateQuarterfinals",
                           tournamentId, "", round, o)
            ELSE Skip("ScoreRegistered", tournamentId, "", round)
       ELSE IF round \in {"quarterfinals", "semifinals"}
            THEN Finish(c, "ScoreRegistered", "AdvanceWinners", tournamentId, "", round,
                        AdvanceWinners(tournaments, matches, tournamentId, round))
       ELSE Skip("ScoreRegistered", tournamentId, "", round)

\* MatchDelegate::UpdateScore
UpdateScore(tournamentId, matchId, score) ==
    LET result == UpdateScoreResult(tournaments, matches, tournamentId, matchId, score)
        updated == UpdatedMatch(matches, matchId, score)
        message == IF result = Ok THEN ScoreRegistered(tournamentId, matchId, updated)
                   ELSE NoMessage
    IN  /\ matches' = IF result = Ok THEN [matches EXCEPT ![matchId] = updated] ELSE matches
        /\ published' = IF result = Ok THEN published \cup {Extracted(message)}
                        ELSE published
        /\ last' = [Record("UpdateScore", "none", tournamentId, "", "", result, <<>>)
                      EXCEPT !.matchId = matchId, !.score = score, !.message = message]
        /\ UNCHANGED <<tournaments, groups, alive, work>>

\* the services called directly, as their public interface allows
CallGenerateRoundRobinMatches(c, tournamentId, groupId) ==
    /\ alive[c]
    /\ Finish(c, "GenerateRoundRobinMatches", "GenerateRoundRobinMatches",
              tournamentId, groupId, "",
              GenerateRoundRobinMatches(tournaments, groups, matches, tournamentId, groupId))

CallGenerateQuarterfinals(c, tournamentId) ==
    /\ alive[c]
    /\ \E o \in GenerateQuarterfinals(tournaments, groups, matches, tournamentId) :
          Finish(c, "GenerateQuarterfinals", "GenerateQuarterfinals",
                 tournamentId, "", "", o)

CallAdvanceWinners(c, tournamentId, round) ==
    /\ alive[c]
    /\ Finish(c, "AdvanceWinners", "AdvanceWinners", tournamentId, "", round,
              AdvanceWinners(tournaments, matches, tournamentId, round))

\* PlayoffGenerationService::CalculateGroupStandings, called for one group
CallCalculateGroupStandings(tournamentId, groupId) ==
    /\ \E v \in CalculateGroupStandings(groups, matches, tournamentId, groupId) :
          last' = [Record("CalculateGroupStandings", "none", tournamentId, groupId, "",
                          Ok, <<>>) EXCEPT !.standings = v]
    /\ UNCHANGED <<tournaments, groups, matches, published, alive, work>>

\* the rows of ms that have no score yet
PendingRows(ms) == {k \in 1..Len(ms) : ms[k].status = "pending"}

InitFrom(stores) ==
    /\ \E s \in stores :
          /\ tournaments = s.tournaments
          /\ groups = s.groups
          /\ matches = s.matches
          /\ published = PublishedFor(s.matches)
    /\ alive = [c \in Consumers |-> TRUE]
    /\ work = [c \in Consumers |-> Idle]
    /\ last = NoRecord

----------------------------------------------------------------------------
(* Spec: the life of a tournament with every handler run to completion     *)
(* before the next (one listener thread per queue; CMS dispatches the      *)
(* messages of a session one at a time), each match scored once.           *)
(*                                                                         *)
(* Initial stores, each reachable by group creation, team registration,    *)
(* TeamAdded handling and score recording:                                 *)
(*   A  T1, 4 full groups of 2; G2..G4 have played their round robin with  *)
(*      decisive scores, G1 has its last match pending;                    *)
(*   B  T2, 2 groups: H1 full without matches, H2 one team short.          *)

StoreA ==
    [tournaments |-> {Tournament("T1", 4, 2)},
     groups |-> <<Group("G1", "T1", <<1, 2>>), Group("G2", "T1", <<3, 4>>),
                  Group("G3", "T1", <<5, 6>>), Group("G4", "T1", <<7, 8>>)>>,
     matches |-> Stored(OpenRoundRobin("T1", "G1", <<1, 2>>, LowerWins)
                        \o PlayedRoundRobin("T1", "G2", <<3, 4>>, LowerWins)
                        \o PlayedRoundRobin("T1", "G3", <<5, 6>>, LowerWins)
                        \o PlayedRoundRobin("T1", "G4", <<7, 8>>, LowerWins))]

StoreB ==
    [tournaments |-> {Tournament("T2", 2, 2)},
     groups |-> <<Group("H1", "T2", <<1, 2>>), Group("H2", "T2", <<3>>)>>,
     matches |-> <<>>]

InitialStores == {StoreA, StoreB}

Init == InitFrom(InitialStores)

Next ==
    \/ \E c \in Consumers, e \in TeamAddedEvents : ProcessTeamAddedEvent(c, e[1], e[2])
    \/ \E c \in Consumers, e \in published :
          ProcessScoreRegisteredEvent(c, e.tournamentId, e.round)
    \/ \E k \in PendingRows(matches), s \in ScoreInputs :
          UpdateScore(matches[k].tournamentId, k, s)
    \/ \E c \in Consumers, e \in TeamAddedEvents :
          CallGenerateRoundRobinMatches(c, e[1], e[2])
    \/ \E c \in Consumers, t \in TournamentIds : CallGenerateQuarterfinals(c, t)
    \/ \E c \in Consumers, t \in TournamentIds, r \in RoundInputs :
          CallAdvanceWinners(c, t, r)

Spec == Init /\ [][Next]_vars

----------------------------------------------------------------------------
(* Properties of Spec *)

\* C3: a handler that processes the same event as the handling just before it
\* creates no match: the match table stays as the first handling left it.
C3_SequentialIdempotency ==
    [][last'.repeat => (last'.created = <<>> /\ matches' = matches)]_vars

\* a regular-round event handled twice in a row: the first handling created
\* the four quarterfinals, the second found them
C3_Witness ==
    /\ last.repeat
    /\ last.op = "ScoreRegistered"
    /\ last.round = "regular"
    /\ last.before = 4
    /\ last.created = <<>>

\* the guards a generation step passes before it looks for its own output
RoundRobinFound(tournamentId, groupId) ==
    /\ ReadById(tournaments, tournamentId) # NoTournament
    /\ FindByTournamentIdAndGroupId(groups, tournamentId, groupId) # NoGroup
    /\ ExistsByGroupId(matches, groupId)

QuarterfinalsExist(tournamentId) ==
    FindByTournamentIdAndRound(matches, tournamentId, "quarterfinals") # <<>>

QuarterfinalsFound(tournamentId) ==
    /\ ReadById(tournaments, tournamentId) # NoTournament
    /\ AreAllGroupMatchesCompleted(matches, tournamentId)
    /\ QuarterfinalsExist(tournamentId)

NextRoundOf(round) == IF round = "quarterfinals" THEN "semifinals" ELSE "finals"

NextRoundExists(tournamentId, round) ==
    /\ round \in {"quarterfinals", "semifinals"}
    /\ FindByTournamentIdAndRound(matches, tournamentId, NextRoundOf(round)) # <<>>

NextRoundFound(tournamentId, round) ==
    LET prior == FindByTournamentIdAndRound(matches, tournamentId, round)
    IN  /\ ReadById(tournaments, tournamentId) # NoTournament
        /\ NextRoundExists(tournamentId, round)
        /\ Len(prior) >= (IF round = "quarterfinals" THEN 4 ELSE 2)
        /\ \A i \in 1..Len(prior) : prior[i].status = "played" /\ GetWinnerId(prior[i]) # NoTeam

\* the step taken is a call of the service with output already there
FindsOutput ==
    \/ /\ last'.call = "GenerateRoundRobinMatches"
       /\ RoundRobinFound(last'.tournamentId, last'.groupId)
    \/ /\ last'.call = "GenerateQuarterfinals"
       /\ QuarterfinalsFound(last'.tournamentId)
    \/ /\ last'.call = "AdvanceWinners"
       /\ NextRoundFound(last'.tournamentId, last'.round)

\* C4 as stated: every generation step that finds its output already in the
\* store writes nothing and returns success.
C4_AsStated ==
    [][FindsOutput => (last'.created = <<>> /\ matches' = matches /\ last'.result = Ok)]_vars

\* C4 amended: every generation step that finds its output already in the store
\* writes nothing; AdvanceWinners returns success, GenerateRoundRobinMatches
\* returns the error "Matches already generated for this group" and
\* GenerateQuarterfinals the error "Quarterfinals already generated".
C4_ExistingOutput ==
    [][FindsOutput =>
         /\ last'.created = <<>>
         /\ matches' = matches
         /\ last'.call = "GenerateRoundRobinMatches" => last'.result = ErrMatchesExist
         /\ last'.call = "GenerateQuarterfinals" => last'.result = ErrQuarterfinalsExist
         /\ last'.call = "AdvanceWinners" => last'.result = Ok]_vars

\* GenerateRoundRobinMatches called for a group that has its matches
C4_Witness ==
    /\ last.call = "GenerateRoundRobinMatches"
    /\ last.result = ErrMatchesExist
    /\ last.created = <<>>
    /\ RoundRobinFound(last.tournamentId, last.groupId)

\* the failure causes of the two generators, as the store shows them
TournamentMissing(tournamentId) == ReadById(tournaments, tournamentId) = NoTournament

GroupMissing(tournamentId, groupId) ==
    FindByTournamentIdAndGroupId(groups, tournamentId, groupId) = NoGroup

FewGroups(tournamentId) == Len(FindByTournamentId(groups, tournamentId)) < 4

FailureValues ==
    {ErrTournament, ErrGroup, ErrNotCompleted, ErrFewGroups, ErrMatchesExist,
     ErrQuarterfinalsExist}

\* the value each cause is reported with, the first cause that applies
QuarterfinalsFailure(tournamentId) ==
    IF TournamentMissing(tournamentId) THEN ErrTournament
    ELSE IF ~AreAllGroupMatchesCompleted(matches, tournamentId) THEN ErrNotCompleted
    ELSE IF QuarterfinalsExist(tournamentId) THEN ErrQuarterfinalsExist
    ELSE IF FewGroups(tournamentId) THEN ErrFewGroups
    ELSE Ok

RoundRobinFailure(tournamentId, groupId) ==
    IF TournamentMissing(tournamentId) THEN ErrTournament
    ELSE IF GroupMissing(tournamentId, groupId) THEN ErrGroup
    ELSE IF ExistsByGroupId(matches, groupId) THEN ErrMatchesExist
    ELSE Ok

FullGroup(g) ==
    /\ Len(g.teams) >= ReadById(tournaments, g.tournamentId).maxTeamsPerGroup
    /\ Cardinality(Range(g.teams)) >= 2

\* 4 full groups, every regular match played, no quarterfinal
ReadyForQuarterfinals(tournamentId) ==
    LET grps == FindByTournamentId(groups, tournamentId)
    IN  /\ ~TournamentMissing(tournamentId)
        /\ Len(grps) = 4
        /\ \A i \in 1..4 : FullGroup(grps[i])
        /\ AreAllGroupMatchesCompleted(matches, tournamentId)
        /\ ~QuarterfinalsExist(tournamentId)

\* C6: when a tournament has 4 full groups (each of at least two distinct
\* teams), all its regular matches played and no quarterfinal, handling
\* ScoreRegistered(round = regular) creates exactly 4
\* matches: round quarterfinals, pending, no score, no group id, and the ids
\* <tournamentId>-qf-1 .. <tournamentId>-qf-4.
C6_FourQuarterfinals ==
    [][\A t \in TournamentIds :
         (/\ ReadyForQuarterfinals(t)
          /\ last'.op = "ScoreRegistered"
          /\ last'.tournamentId = t
          /\ last'.round = "regular")
         => /\ Len(last'.created) = 4
            /\ matches' = matches \o last'.created
            /\ \A i \in 1..4 :
                 /\ last'.created[i].id = PlayoffId(t, "qf", i)
                 /\ last'.created[i].tournamentId = t
                 /\ last'.created[i].round = "quarterfinals"
                 /\ last'.created[i].status = "pending"
                 /\ last'.created[i].score = NoScore
                 /\ last'.created[i].groupId = NoGroupId]_vars

\* the last regular score was handled and the quarterfinals are in the store
C6_Witness ==
    /\ last.op = "ScoreRegistered"
    /\ last.round = "regular"
    /\ last.result = Ok
    /\ Len(last.created) = 4
    /\ Len(FindByTournamentIdAndRound(matches, last.tournamentId, "quarterfinals")) = 4

\* C10: the matches AdvanceWinners creates pair the winners of the prior round
\* in the order its matches were generated: semifinal 1 is winner(QF1) home vs
\* winner(QF2) visitor, semifinal 2 is winner(QF3) vs winner(QF4), the final is
\* winner(SF1) vs winner(SF2); the group table is not consulted.
C10_ConsecutiveWinners ==
    [][(last'.call = "AdvanceWinners" /\ last'.created # <<>>) =>
         LET prior == FindByTournamentIdAndRound(matches, last'.tournamentId, last'.round)
             made == last'.created
         IN  /\ \A i \in 1..Len(made) :
                  /\ made[i].round = NextRoundOf(last'.round)
                  /\ made[i].home = GetWinnerId(prior[2 * i - 1])
                  /\ made[i].visitor = GetWinnerId(prior[2 * i])
                  /\ made[i].home # NoTeam
                  /\ made[i].visitor # NoTeam
             /\ last'.round = "quarterfinals" => Len(made) = 2
             /\ last'.round = "semifinals" => Len(made) = 1
             /\ last'.round \in {"quarterfinals", "semifinals"}]_vars

\* semifinals created from quarterfinals of which one was won by the visitor
C10_Witness ==
    /\ last.call = "AdvanceWinners"
    /\ last.round = "quarterfinals"
    /\ Len(last.created) = 2
    /\ LET prior == FindByTournamentIdAndRound(matches, last.tournamentId, "quarterfinals")
       IN  /\ Len(prior) = 4
           /\ \E i \in 1..4 : GetWinnerId(prior[i]) = prior[i].visitor
           /\ last.created[1].home = GetWinnerId(prior[1])
           /\ last.created[2].visitor = GetWinnerId(prior[4])

----------------------------------------------------------------------------
(* SpecConc: two consumer processes on the same queues (the broker hands    *)
(* each message to one of them, and hands duplicates out again), no lock    *)
(* and no transaction around a handler. A handler is its own check, then    *)
(* the service's guards and the computing of the matches, then one Create   *)
(* per match, each a step of its own on the shared store. The reads of a    *)
(* step are taken together, so every behaviour here is one of the code.     *)
(*                                                                          *)
(* Initial stores, each a state Spec reaches:                               *)
(*   Q  T1 with every regular match played and no quarterfinal;             *)
(*   S  Q with the quarterfinals generated and played;                      *)
(*   F  S with the semifinals generated and played;                         *)
(*   B  T2 with H1 full and without matches.                                *)

\* every match of ms played, the home team winning 1-0
HomeWins(ms) == [i \in 1..Len(ms) |-> SetScore(ms[i], <<1, 0>>)]

StoreQ ==
    [StoreA EXCEPT !.matches =
        Stored(PlayedRoundRobin("T1", "G1", <<1, 2>>, LowerWins)
               \o PlayedRoundRobin("T1", "G2", <<3, 4>>, LowerWins)
               \o PlayedRoundRobin("T1", "G3", <<5, 6>>, LowerWins)
               \o PlayedRoundRobin("T1", "G4", <<7, 8>>, LowerWins))]

StoreS ==
    LET o == CHOOSE x \in GenerateQuarterfinals(StoreQ.tournaments, StoreQ.groups,
                                                StoreQ.matches, "T1") : TRUE
    IN  [StoreQ EXCEPT !.matches = Stored(StoreQ.matches \o HomeWins(o.created))]

StoreF ==
    LET o == AdvanceWinners(StoreS.tournaments, StoreS.matches, "T1", "quarterfinals")
    IN  [StoreS EXCEPT !.matches = Stored(StoreS.matches \o HomeWins(o.created))]

ConcurrentStores == {StoreQ, StoreS, StoreF, StoreB}

InitConc == InitFrom(ConcurrentStores)

\* the handler's own check, TeamAddedConsumer::ProcessTeamAddedEvent
BeginTeamAdded(c, tournamentId, groupId) ==
    /\ alive[c]
    /\ work[c].pc = "idle"
    /\ IF IsGroupReadyForMatches(tournaments, groups, matches, tournamentId, groupId)
       THEN /\ work' = [work EXCEPT ![c] =
                          [pc |-> "checked", pending |-> <<>>,
                           record |-> Record("TeamAdded", "GenerateRoundRobinMatches",
                                             tournamentId, groupId, "", Ok, <<>>)]]
            /\ UNCHANGED <<tournaments, groups, matches, published, alive, last>>
       ELSE Skip("TeamAdded", tournamentId, groupId, "")

\* the handler's own check, ScoreRegisteredConsumer::ProcessScoreRegisteredEvent
BeginScoreRegistered(c, tournamentId, round) ==
    /\ alive[c]
    /\ work[c].pc = "idle"
    /\ IF \/ round = "regular" /\ AreAllGroupMatchesCompleted(matches, tournamentId)
          \/ round \in {"quarterfinals", "semifinals"}
       THEN /\ work' = [work EXCEPT ![c] =
                          [pc |-> "checked", pending |-> <<>>,
                           record |-> Record("ScoreRegistered",
                                             IF round = "regular"
                                             THEN "GenerateQuarterfinals"
                                             ELSE "AdvanceWinners",
                                             tournamentId, "", round, Ok, <<>>)]]
            /\ UNCHANGED <<tournaments, groups, matches, published, alive, last>>
       ELSE Skip("ScoreRegistered", tournamentId, "", round)

\* the outcomes of the service a checked handler calls, on the store as it is
ServiceOutcomes(r) ==
    IF r.call = "GenerateRoundRobinMatches"
    THEN {GenerateRoundRobinMatches(tournaments, groups, matches, r.tournamentId, r.groupId)}
    ELSE IF r.call = "GenerateQuarterfinals"
    THEN GenerateQuarterfinals(tournaments, groups, matches, r.tournamentId)
    ELSE {AdvanceWinners(tournaments, matches, r.tournamentId, r.round)}

\* the service up to its loop of Create calls
CallService(c) ==
    /\ alive[c]
    /\ work[c].pc = "checked"
    /\ \E o \in ServiceOutcomes(work[c].record) :
          work' = [work EXCEPT ![c] =
                     [pc |-> "creating", pending |-> o.created,
                      record |-> [work[c].record EXCEPT !.result = o.result,
                                                        !.created = o.created]]]
    /\ UNCHANGED <<tournaments, groups, matches, published, alive, last>>

\* MatchRepository::Create, one INSERT
Create(c) ==
    /\ alive[c]
    /\ work[c].pc = "creating"
    /\ work[c].pending # <<>>
    /\ matches' = Append(matches, Head(work[c].pending))
    /\ work' = [work EXCEPT ![c].pending = Tail(work[c].pending)]
    /\ UNCHANGED <<tournaments, groups, published, alive, last>>

\* the service returns and the handler ends
Return(c) ==
    /\ alive[c]
    /\ work[c].pc = "creating"
    /\ work[c].pending = <<>>
    /\ alive' = IF work[c].record.result = Crashed THEN [alive EXCEPT ![c] = FALSE]
                ELSE alive
    /\ work' = [work EXCEPT ![c] = Idle]
    /\ last' = Stamp(work[c].record)
    /\ UNCHANGED <<tournaments, groups, matches, published>>

NextConc ==
    \/ \E c \in Consumers, e \in TeamAddedEvents : BeginTeamAdded(c, e[1], e[2])
    \/ \E c \in Consumers, e \in published :
          BeginScoreRegistered(c, e.tournamentId, e.round)
    \/ \E c \in Consumers : CallService(c)
    \/ \E c \in Consumers : Create(c)
    \/ \E c \in Consumers : Return(c)

SpecConc == InitConc /\ [][NextConc]_vars

\* C1: under any interleaving of concurrently handled and duplicated
\* ScoreRegistered events, a tournament never holds more than one generation
\* of a playoff round: at most 4 quarterfinals, 2 semifinals and 1 final.
C1_OneGenerationPerRound ==
    \A t \in TournamentIds :
        /\ Len(FindByTournamentIdAndRound(matches, t, "quarterfinals")) <= 4
        /\ Len(FindByTournamentIdAndRound(matches, t, "semifinals")) <= 2
        /\ Len(FindByTournamentIdAndRound(matches, t, "finals")) <= 1

\* C2: under any interleaving of concurrently handled and duplicated TeamAdded
\* events for a group, no (home, visitor) ordered pair of the group has two
\* regular matches in the store.
C2_OneFixturePerPair ==
    \A i, j \in 1..Len(matches) :
        (/\ i < j
         /\ matches[i].round = "regular"
         /\ matches[j].round = "regular"
         /\ matches[i].groupId = matches[j].groupId)
        => ~(matches[i].home = matches[j].home /\ matches[i].visitor = matches[j].visitor)

----------------------------------------------------------------------------
(* SpecSeed: GenerateQuarterfinals called on stores at the end of the group *)
(* stage. Initial stores, each reachable by group creation, round-robin     *)
(* generation and score recording:                                          *)
(*   - T1 with 4 groups: G1 of three teams, G2..G4 of two, G4's roster not  *)
(*     in id order; every regular match played, with every combination of   *)
(*     home win, visitor win and draw in G2..G4 and three tables for G1;    *)
(*   - T3 with its single group of 16 teams, every match played;            *)
(*   - T4 with its single group of 3 teams, every match played.             *)

SeedTournamentIds == {"T1", "T3", "T4"}

FourGroupStores ==
    {[tournaments |-> {Tournament("T1", 4, 2)},
      groups |-> <<Group("G1", "T1", <<1, 2, 9>>), Group("G2", "T1", <<3, 4>>),
                   Group("G3", "T1", <<5, 6>>), Group("G4", "T1", <<8, 7>>)>>,
      matches |-> Stored(g1 \o PlayedWith("T1", "G2", <<3, 4>>, s2)
                            \o PlayedWith("T1", "G3", <<5, 6>>, s3)
                            \o PlayedWith("T1", "G4", <<8, 7>>, s4))] :
        g1 \in {PlayedRoundRobin("T1", "G1", <<1, 2, 9>>, LowerWins),
                PlayedRoundRobin("T1", "G1", <<1, 2, 9>>, HigherWins),
                PlayedRoundRobin("T1", "G1", <<1, 2, 9>>, AllDraw)},
        s2 \in ScoreInputs \X ScoreInputs,
        s3 \in ScoreInputs \X ScoreInputs,
        s4 \in ScoreInputs \X ScoreInputs}

\* the teams of the single pool
PoolTeams == [i \in 1..16 |-> i]

StorePool ==
    [tournaments |-> {Tournament("T3", 1, 16)},
     groups |-> <<Group("P1", "T3", PoolTeams)>>,
     matches |-> Stored(PlayedRoundRobin("T3", "P1", PoolTeams, LowerWins))]

StoreSmallPool ==
    [tournaments |-> {Tournament("T4", 1, 3)},
     groups |-> <<Group("P2", "T4", <<1, 2, 3>>)>>,
     matches |-> Stored(PlayedRoundRobin("T4", "P2", <<1, 2, 3>>, LowerWins))]

SeedStores == FourGroupStores \cup {StorePool, StoreSmallPool}

InitSeed == InitFrom(SeedStores)

NextSeed == \E c \in Consumers, t \in SeedTournamentIds : CallGenerateQuarterfinals(c, t)

SpecSeed == InitSeed /\ [][NextSeed]_vars

\* the number of entries of a group's standings
RankedTeams(g) == Cardinality(DOMAIN StandingsMap(matches, g))

\* the store holds tournament t, its regular matches all played, and no
\* quarterfinal of it
SeedingDue(tournamentId) ==
    /\ ~TournamentMissing(tournamentId)
    /\ AreAllGroupMatchesCompleted(matches, tournamentId)
    /\ ~QuarterfinalsExist(tournamentId)

\* C7: for a tournament with exactly 4 groups A, B, C, D (in store order), each
\* with at least 2 ranked teams, GenerateQuarterfinals creates, in order,
\* (A 1st home vs D 2nd visitor), (B 1st vs C 2nd), (C 1st vs B 2nd),
\* (D 1st vs A 2nd), 1st and 2nd being positions in the group's computed
\* standings.
C7_CrossGroupSeeding ==
    [][\A t \in SeedTournamentIds :
         LET grps == FindByTournamentId(groups, t)
         IN  (/\ last'.call = "GenerateQuarterfinals"
              /\ last'.tournamentId = t
              /\ SeedingDue(t)
              /\ Len(grps) = 4
              /\ \A i \in 1..4 : RankedTeams(grps[i]) >= 2)
             => /\ last'.result = Ok
                /\ Len(last'.created) = 4
                /\ \E st \in Choices([i \in 1..4 |->
                          CalculateGroupStandings(groups, matches, t, grps[i].id)]) :
                      /\ last'.created[1].home = st[1][1].team
                      /\ last'.created[1].visitor = st[4][2].team
                      /\ last'.created[2].home = st[2][1].team
                      /\ last'.created[2].visitor = st[3][2].team
                      /\ last'.created[3].home = st[3][1].team
                      /\ last'.created[3].visitor = st[2][2].team
                      /\ last'.created[4].home = st[4][1].team
                      /\ last'.created[4].visitor = st[1][2].team]_vars

\* quarterfinals seeded from four groups, group A of three ranked teams
C7_Witness ==
    LET grps == FindByTournamentId(groups, last.tournamentId)
    IN  /\ last.call = "GenerateQuarterfinals"
        /\ last.result = Ok
        /\ Len(last.created) = 4
        /\ Len(grps) = 4
        /\ RankedTeams(grps[1]) = 3
        /\ last.created[1].home \in Range(grps[1].teams)
        /\ last.created[1].visitor \in Range(grps[4].teams)
        /\ last.created[4].visitor \in Range(grps[1].teams)

\* the error the tests expect for a pool of fewer than 8 teams
ErrFewTeams == "Not enough teams for playoffs (need 8)"

\* C8: for a tournament with one group of 16 ranked teams whose regular matches
\* are all played, GenerateQuarterfinals succeeds and creates, in order,
\* (rank 1 vs rank 8), (rank 4 vs rank 5), (rank 2 vs rank 7), (rank 3 vs
\* rank 6) of the group's standings.
C8_SinglePoolSeeding ==
    [][\A t \in SeedTournamentIds :
         LET grps == FindByTournamentId(groups, t)
         IN  (/\ last'.call = "GenerateQuarterfinals"
              /\ last'.tournamentId = t
              /\ SeedingDue(t)
              /\ Len(grps) = 1
              /\ RankedTeams(grps[1]) = 16)
             => /\ last'.result = Ok
                /\ Len(last'.created) = 4
                /\ \E st \in CalculateGroupStandings(groups, matches, t, grps[1].id) :
                      /\ last'.created[1].home = st[1].team
                      /\ last'.created[1].visitor = st[8].team
                      /\ last'.created[2].home = st[4].team
                      /\ last'.created[2].visitor = st[5].team
                      /\ last'.created[3].home = st[2].team
                      /\ last'.created[3].visitor = st[7].team
                      /\ last'.created[4].home = st[3].team
                      /\ last'.created[4].visitor = st[6].team]_vars

\* C9: for a single-group tournament whose group has fewer than 8 ranked teams,
\* GenerateQuarterfinals fails with "Not enough teams for playoffs (need 8)"
\* and creates no match.
C9_FewTeamsError ==
    [][\A t \in SeedTournamentIds :
         LET grps == FindByTournamentId(groups, t)
         IN  (/\ last'.call = "GenerateQuarterfinals"
              /\ last'.tournamentId = t
              /\ SeedingDue(t)
              /\ Len(grps) = 1
              /\ RankedTeams(grps[1]) < 8)
             => /\ last'.result = ErrFewTeams
                /\ last'.created = <<>>
                /\ matches' = matches]_vars

----------------------------------------------------------------------------
(* SpecRound: round-robin generation, called directly and through the      *)
(* TeamAdded handler, each call run to completion. Initial stores, each    *)
(* reachable by tournament and group creation, team registration and       *)
(* TeamAdded handling: tournaments T1 and T2; G1 of T1 with a roster of 0  *)
(* to 4 distinct teams and a capacity of 2 to 4; H1 of T2, full, with or   *)
(* without its round robin.                                                *)

RoundTournamentIds == {"T0", "T1", "T2"}
RoundGroupIds == {"G0", "G1", "H1"}
Rosters ==
    {<<>>, <<1>>, <<1, 2>>, <<2, 1>>, <<1, 2, 3>>, <<3, 1, 2>>, <<1, 2, 3, 4>>, <<4, 2, 3, 1>>}
Capacities == {2, 3, 4}

RoundStores ==
    {[tournaments |-> {Tournament("T1", 1, n), Tournament("T2", 1, 2)},
      groups |-> <<Group("G1", "T1", r), Group("H1", "T2", <<5, 6>>)>>,
      matches |-> ms] :
        n \in Capacities, r \in Rosters,
        ms \in {<<>>, RoundRobinLoop("T2", "H1", <<5, 6>>, 1, 1)}}

InitRound == InitFrom(RoundStores)

NextRound ==
    \/ \E c \in Consumers, t \in RoundTournamentIds, g \in RoundGroupIds :
          ProcessTeamAddedEvent(c, t, g)
    \/ \E c \in Consumers, t \in RoundTournamentIds, g \in RoundGroupIds :
          CallGenerateRoundRobinMatches(c, t, g)

SpecRound == InitRound /\ [][NextRound]_vars

\* the roster GenerateRoundRobinMatches read for the call recorded in r
RosterOf(r) == FindByTournamentIdAndGroupId(groups, r.tournamentId, r.groupId).teams

\* the step taken is a call of GenerateRoundRobinMatches that succeeded
Generated ==
    /\ last'.call = "GenerateRoundRobinMatches"
    /\ last'.result = Ok

\* the number of matches in created with the given home and visitor
Fixtures(created, home, visitor) ==
    Cardinality({k \in 1..Len(created) :
                    created[k].home = home /\ created[k].visitor = visitor})

C12_SingleRoundRobin ==
    [][Generated =>
         LET teams == RosterOf(last')
             N == Len(teams)
         IN  /\ Len(last'.created) = (N * (N - 1)) \div 2
             /\ \A i, j \in 1..N :
                   i # j => Fixtures(last'.created, teams[i], teams[j])
                            + Fixtures(last'.created, teams[j], teams[i]) = 1]_vars

\* C13: every match GenerateRoundRobinMatches creates for group g of
\* tournament T has tournament id T, group id g, round regular, status
\* pending and no score.
C13_CreatedFields ==
    [][last'.call = "GenerateRoundRobinMatches" =>
         \A k \in 1..Len(last'.created) :
            /\ last'.created[k].tournamentId = last'.tournamentId
            /\ last'.created[k].groupId = last'.groupId
            /\ last'.created[k].round = "regular"
            /\ last'.created[k].status = "pending"
            /\ last'.created[k].score = NoScore
            /\ matches'[Len(matches) + k] = last'.created[k]]_vars

\* the TeamAdded handler generated the matches of G1
C13_Witness ==
    /\ last.op = "TeamAdded"
    /\ last.call = "GenerateRoundRobinMatches"
    /\ last.groupId = "G1"
    /\ Len(last.created) >= 2
    /\ \A k \in 1..Len(matches) :
          matches[k].groupId = "G1" => matches[k].status = "pending"

\* the group id names a group of another tournament / of no tournament
GroupElsewhere(tournamentId, groupId) ==
    \E k \in 1..Len(groups) :
        groups[k].id = groupId /\ groups[k].tournamentId # tournamentId

GroupNowhere(groupId) == \A k \in 1..Len(groups) : groups[k].id # groupId

\* the group of the tournament holds fewer teams than the format allows
NotFull(tournamentId, groupId) ==
    LET tournament == ReadById(tournaments, tournamentId)
        group == FindByTournamentIdAndGroupId(groups, tournamentId, groupId)
    IN  /\ tournament # NoTournament
        /\ group # NoGroup
        /\ Len(group.teams) < tournament.maxTeamsPerGroup

\* the reason stated for each violated precondition, the first that applies
RoundRobinReason(tournamentId, groupId) ==
    IF TournamentMissing(tournamentId) THEN ErrTournament
    ELSE IF GroupNowhere(groupId) THEN ErrGroup
    ELSE IF GroupElsewhere(tournamentId, groupId) THEN ErrGroupTournament
    ELSE IF ExistsByGroupId(matches, groupId) THEN ErrMatchesExist
    ELSE IF NotFull(tournamentId, groupId) THEN ErrNotFull
    ELSE Ok

\* C14: GenerateRoundRobinMatches creates no match and returns a distinct
\* error reason for each violated precondition: tournament missing, group
\* missing, group of another tournament, matches existing for the group,
\* group not full.
C14_DistinctReasons ==
    [][last'.call = "GenerateRoundRobinMatches" =>
         /\ last'.result = RoundRobinReason(last'.tournamentId, last'.groupId)
         /\ last'.result # Ok => (last'.created = <<>> /\ matches' = matches)]_vars

\* the state in which a TeamAdded event for the group is due to generate
GroupReady(tournamentId, groupId) ==
    LET tournament == ReadById(tournaments, tournamentId)
        group == FindByTournamentIdAndGroupId(groups, tournamentId, groupId)
    IN  /\ tournament # NoTournament
        /\ group # NoGroup
        /\ Len(group.teams) >= tournament.maxTeamsPerGroup
        /\ ~ExistsByGroupId(matches, groupId)

\* C15: handling TeamAdded(T, g) creates the round-robin matches of g if and
\* only if, at handling time, the tournament and the group exist, g holds at
\* least the format's max teams per group and no match exists for g; in
\* every other case the handler creates no match.
C15_TeamAddedGeneration ==
    [][last'.op = "TeamAdded" =>
         IF GroupReady(last'.tournamentId, last'.groupId)
         THEN /\ last'.created =
                    RoundRobinLoop(last'.tournamentId, last'.groupId, RosterOf(last'), 1, 1)
              /\ last'.created # <<>>
              /\ matches' = matches \o last'.created
         ELSE /\ last'.created = <<>>
              /\ matches' = matches]_vars

\* a TeamAdded event handled for a full group without matches
C15_Witness ==
    /\ last.op = "TeamAdded"
    /\ last.groupId = "H1"
    /\ last.tournamentId = "T2"
    /\ Len(last.created) = 2
    /\ FindByGroupId(matches, "H1") = last.created

----------------------------------------------------------------------------
(* SpecStand: CalculateGroupStandings as a function of the store. Initial  *)
(* stores, each reachable by round-robin generation and score recording:   *)
(* T1 with its group G1 of three teams (roster not in id order) or of two; *)
(* every match of the round robin pending or played, with every            *)
(* combination of 2-0 and 1-1 in the group of three and of home win,       *)
(* visitor win and draw in the group of two.                               *)

StandScores == {<<2, 0>>, <<1, 1>>}
StandInputs == {<<"T1", "G1">>, <<"T1", "G0">>}

\* a round robin of a group with match i pending when results[i] is NoScore
\* and played with the score results[i] otherwise
PartlyPlayed(tournamentId, groupId, teams, results) ==
    LET ms == RoundRobinLoop(tournamentId, groupId, teams, 1, 1)
    IN  [i \in 1..Len(ms) |->
            IF results[i] = NoScore THEN ms[i] ELSE SetScore(ms[i], results[i])]

StandStore(teams, results) ==
    [tournaments |-> {Tournament("T1", 1, Len(teams))},
     groups |-> <<Group("G1", "T1", teams)>>,
     matches |-> Stored(PartlyPlayed("T1", "G1", teams, results))]

StandStores ==
    {StandStore(<<3, 1, 2>>, results) : results \in [1..6 -> StandScores \cup {NoScore}]}
    \cup {StandStore(teams, results) :
            teams \in {<<1, 2>>, <<2, 1>>}, results \in [1..2 -> ScoreInputs \cup {NoScore}]}

InitStand == InitFrom(StandStores)

NextStand == \E e \in StandInputs : CallCalculateGroupStandings(e[1], e[2])

SpecStand == InitStand /\ [][NextStand]_vars

\* the tallies of a team over the played matches of a group
PlayedOf(groupId) ==
    {k \in 1..Len(matches) : matches[k].groupId = groupId /\ matches[k].status = "played"}

Wins(team, groupId) ==
    Cardinality({k \in PlayedOf(groupId) : GetWinnerId(matches[k]) = team})

GoalsFor(team, groupId) ==
    SumSeq([k \in 1..Len(matches) |->
              IF k \notin PlayedOf(groupId) THEN 0
              ELSE (IF matches[k].home = team THEN matches[k].score[1] ELSE 0)
                   + (IF matches[k].visitor = team THEN matches[k].score[2] ELSE 0)])

GoalsAgainst(team, groupId) ==
    SumSeq([k \in 1..Len(matches) |->
              IF k \notin PlayedOf(groupId) THEN 0
              ELSE (IF matches[k].home = team THEN matches[k].score[2] ELSE 0)
                   + (IF matches[k].visitor = team THEN matches[k].score[1] ELSE 0)])

GoalDifference(team, groupId) == GoalsFor(team, groupId) - GoalsAgainst(team, groupId)

\* a is ranked at or above b by wins, then goal difference, then goals scored
RanksAbove(a, b, groupId) ==
    \/ Wins(a, groupId) > Wins(b, groupId)
    \/ /\ Wins(a, groupId) = Wins(b, groupId)
       /\ GoalDifference(a, groupId) > GoalDifference(b, groupId)
    \/ /\ Wins(a, groupId) = Wins(b, groupId)
       /\ GoalDifference(a, groupId) = GoalDifference(b, groupId)
       /\ GoalsFor(a, groupId) >= GoalsFor(b, groupId)

\* the step taken computed the standings of a group that exists
Ranked ==
    /\ last'.op = "CalculateGroupStandings"
    /\ ~GroupMissing(last'.tournamentId, last'.groupId)

\* C16: in the standings of a group every roster team appears once, and for
\* any two teams a ranked above b: wins(a) > wins(b), or the wins are equal
\* and goalDifference(a) > goalDifference(b), or wins and goal difference are
\* equal and goalsFor(a) >= goalsFor(b), each tallied over the group's played
\* matches with goalDifference = goalsFor - goalsAgainst.
C16_RankingOrder ==
    [][Ranked =>
         LET v == last'.standings
             g == last'.groupId
         IN  /\ Len(v) = Len(RosterOf(last'))
             /\ {v[i].team : i \in 1..Len(v)} = Range(RosterOf(last'))
             /\ \A i, j \in 1..Len(v) : i < j => RanksAbove(v[i].team, v[j].team, g)]_vars

\* standings of three teams: the first two level on wins and apart on goal
\* difference, the third with fewer wins
C16_Witness ==
    /\ last.op = "CalculateGroupStandings"
    /\ Len(last.standings) = 3
    /\ last.standings[1].wins = last.standings[2].wins
    /\ last.standings[1].goalDifference > last.standings[2].goalDifference
    /\ last.standings[2].wins > last.standings[3].wins

\* the place of a team in a roster
RosterIndex(teams, team) == CHOOSE k \in 1..Len(teams) : teams[k] = team

\* level on wins, goal difference and goals scored
Level(a, b) ==
    /\ a.wins = b.wins
    /\ a.goalDifference = b.goalDifference
    /\ a.goalsFor = b.goalsFor

\* C17: teams equal on wins, goal difference and goals scored appear in the
\* standings in roster order (stable sort over the roster).
C17_StableTies ==
    [][Ranked =>
         LET v == last'.standings
             teams == RosterOf(last')
         IN  \A i, j \in 1..Len(v) :
                (i < j /\ Level(v[i], v[j]))
                   => RosterIndex(teams, v[i].team) < RosterIndex(teams, v[j].team)]_vars

\* the match list with its rows rearranged by the permutation p
Permuted(ms, p) == [i \in 1..Len(ms) |-> ms[p[i]]]

\* the vector CalculateGroupStandings hands to std::sort for a match list
SortInput(ms, tournamentId, groupId) ==
    LET st == StandingsMap(ms, FindByTournamentIdAndGroupId(groups, tournamentId, groupId))
    IN  StandingsVector(DOMAIN st, st)

----------------------------------------------------------------------------
(* SpecScore: the score endpoint called on any match of the store, scored  *)
(* already or not, with scores inside and outside 0..10, for a match id   *)
(* that names no row (0) and for another tournament. Initial store: T2     *)
(* with H1 full and its round robin generated, no match played, and T1     *)
(* without groups.                                                         *)

ScoreTournamentIds == {"T2", "T1", "T0"}
\* the scores the endpoint is called with: inside 0..10, at its limits, below
\* and above
ScoreRequests ==
    ScoreInputs \cup {<<10, 10>>, <<10, 0>>, <<-1, 0>>, <<0, -1>>, <<11, 5>>, <<5, 11>>, <<-1, 11>>}

StoreScore ==
    [tournaments |-> {Tournament("T2", 2, 2), Tournament("T1", 4, 2)},
     groups |-> <<Group("H1", "T2", <<1, 2>>), Group("H2", "T2", <<3>>)>>,
     matches |-> RoundRobinLoop("T2", "H1", <<1, 2>>, 1, 1)]

InitScore == InitFrom({StoreScore})

NextScore ==
    \E t \in ScoreTournamentIds, k \in 0..Len(matches), s \in ScoreRequests :
        UpdateScore(t, k, s)

SpecScore == InitScore /\ [][NextScore]_vars

\* the step taken is an UpdateScore call on a match that has status played
Rescoring ==
    /\ last'.op = "UpdateScore"
    /\ last'.matchId \in 1..Len(matches)
    /\ matches[last'.matchId].status = "played"

\* C19: a match's score is written at most once: once a match has status
\* played, no later UpdateScore call on it changes its score or its winner.
C19_ScoreWrittenOnce ==
    [][Rescoring =>
         /\ matches'[last'.matchId].score = matches[last'.matchId].score
         /\ GetWinnerId(matches'[last'.matchId]) = GetWinnerId(matches[last'.matchId])]_vars

\* C20: in every state of the match store a match has status played if and
\* only if it has a score.
C20_PlayedIffScore ==
    \A k \in 1..Len(matches) :
        (matches[k].status = "played") <=> (matches[k].score # NoScore)

\* the store holds played regular matches, a played quarterfinal and pending
\* playoff matches
C20_Witness ==
    /\ \E k \in 1..Len(matches) :
          matches[k].round = "regular" /\ matches[k].status = "played"
    /\ \E k \in 1..Len(matches) :
          /\ matches[k].round = "quarterfinals"
          /\ matches[k].status = "played"
          /\ matches[k].score \in ScoreInputs
    /\ \E k \in 1..Len(matches) :
          /\ matches[k].round = "quarterfinals"
          /\ matches[k].status = "pending"
          /\ matches[k].score = NoScore

----------------------------------------------------------------------------
(* Properties of the score endpoint *)

\* the step taken is an UpdateScore call with equal home and visitor scores
\* that passes the checks before the check of ties
TiedScore ==
    /\ last'.op = "UpdateScore"
    /\ last'.score[1] = last'.score[2]
    /\ last'.score[1] \in 0..10
    /\ ~TournamentMissing(last'.tournamentId)
    /\ last'.matchId \in 1..Len(matches)
    /\ matches[last'.matchId].tournamentId = last'.tournamentId

\* C21: UpdateScore with equal home and visitor scores succeeds when the
\* round of the match is regular; for any other round it fails with the
\* ties-not-allowed error, leaves the match unchanged and publishes no
\* event; hence every played playoff match has a winner.
C21_TiesInPlayoffs ==
    [][/\ TiedScore =>
            IF matches[last'.matchId].round = "regular"
            THEN /\ last'.result = Ok
                 /\ matches'[last'.matchId].score = last'.score
                 /\ matches'[last'.matchId].status = "played"
            ELSE /\ last'.result = ErrTies
                 /\ matches' = matches
                 /\ published' = published
                 /\ last'.message = NoMessage
       /\ \A k \in 1..Len(matches') :
             (matches'[k].round # "regular" /\ matches'[k].status = "played")
                => GetWinnerId(matches'[k]) # NoTeam]_vars

\* a tie refused on a quarterfinal while the store holds a played quarterfinal
C21_Witness ==
    /\ last.op = "UpdateScore"
    /\ last.score = <<1, 1>>
    /\ last.result = ErrTies
    /\ matches[last.matchId].round = "quarterfinals"
    /\ matches[last.matchId].status = "pending"
    /\ \E k \in 1..Len(matches) :
          matches[k].round = "quarterfinals" /\ matches[k].status = "played"

\* the step taken is an UpdateScore call with a value below 0 or above 10
OutOfRange ==
    /\ last'.op = "UpdateScore"
    /\ \E i \in 1..2 : last'.score[i] < 0 \/ last'.score[i] > 10

\* C22: UpdateScore rejects any score with home or visitor below 0 or above
\* 10, leaving the match table unchanged and publishing no event; every
\* stored score has both values in 0..10.
C22_ScoreRange ==
    [][/\ OutOfRange =>
            /\ last'.result # Ok
            /\ matches' = matches
            /\ published' = published
            /\ last'.message = NoMessage
       /\ \A k \in 1..Len(matches') :
             matches'[k].score # NoScore
                => (matches'[k].score[1] \in 0..10 /\ matches'[k].score[2] \in 0..10)]_vars

\* 5-11 refused for an existing match of the tournament, the store holding a
\* score at the upper limit
C22_Witness ==
    /\ last.op = "UpdateScore"
    /\ last.score = <<5, 11>>
    /\ last.result = ErrRange
    /\ last.tournamentId = "T2"
    /\ last.matchId \in 1..Len(matches)
    /\ \E k \in 1..Len(matches) : matches[k].score = <<10, 10>>

\* the causes UpdateScore fails for, as the store and the request show them
ScoreRefused(tournamentId, matchId, score) ==
    \/ TournamentMissing(tournamentId)
    \/ matchId \notin 1..Len(matches)
    \/ matches[matchId].tournamentId # tournamentId
    \/ \E i \in 1..2 : score[i] < 0 \/ score[i] > 10
    \/ score[1] = score[2] /\ matches[matchId].round # "regular"

----------------------------------------------------------------------------
(* SpecListen: the listeners of a consumer process handed any message:     *)
(* not a text message, text that is not JSON, JSON that is not an object,  *)
(* an object with a field missing or not a string, and well-formed events  *)
(* for known and unknown tournaments, groups and rounds. Each onMessage    *)
(* runs to completion. AdvanceWinners is also called directly. Initial     *)
(* stores: B, Q and F.                                                     *)

Absent == "<absent>"
NotAString == "<number>"
Ignored == "ignored"

Bytes == [kind |-> "bytes", fields |-> <<>>]
Malformed == [kind |-> "malformed", fields |-> <<>>]
Array == [kind |-> "array", fields |-> <<>>]
\* a JSON object with the three fields a handler extracts, in reading order
Object(first, second, third) == [kind |-> "object", fields |-> <<first, second, third>>]

\* tournamentId, groupId, teamId
TeamAddedMessages ==
    {Bytes, Malformed, Array,
     Object("T2", "H1", "2"), Object("T2", "H2", "3"), Object("T0", "H1", "2"),
     Object("T2", "G0", "2"), Object("T2", "H1", Absent), Object(NotAString, "H1", "2"),
     Object("T2", NotAString, Absent)}

\* tournamentId, matchId, round
ScoreRegisteredMessages ==
    {Bytes, Malformed, Array,
     Object("T1", "1", "regular"), Object("T1", "9", "quarterfinals"),
     Object("T1", "13", "semifinals"), Object("T1", "15", "finals"),
     Object("T1", "1", "third place"), Object("T0", "1", "regular"),
     Object("T2", "1", "quarterfinals"), Object("T1", Absent, "regular"),
     Object("T1", "1", NotAString)}

ListenRounds == {"regular", "quarterfinals", "semifinals", "finals", "third place", ""}

\* reading the fields in order with the const operator[] of the JSON library
\* and converting each to std::string: "ok", "throws" (type_error for a value
\* that is not a string) or "undefined" (a key the object does not hold: an
\* assertion when assertions are compiled in, a read through the end iterator
\* otherwise)
RECURSIVE ExtractFields(_)
ExtractFields(fields) ==
    IF fields = <<>> THEN "ok"
    ELSE IF Head(fields) = Absent THEN "undefined"
    ELSE IF Head(fields) = NotAString THEN "throws"
    ELSE ExtractFields(Tail(fields))

\* an onMessage that ends before it calls a service
Drop(c, op, result) ==
    /\ alive' = IF result = Crashed THEN [alive EXCEPT ![c] = FALSE] ELSE alive
    /\ last' = Stamp(Record(op, "none", "", "", "", result, <<>>))
    /\ UNCHANGED <<tournaments, groups, matches, published, work>>

\* TeamAddedConsumer::onMessage
TeamAddedOnMessage(c, message) ==
    /\ alive[c]
    /\ work[c].pc = "idle"
    /\ IF message.kind = "bytes" THEN Drop(c, "TeamAdded", Ignored)
       ELSE IF message.kind = "malformed" THEN Drop(c, "TeamAdded", Thrown)
       ELSE IF message.kind = "array" THEN Drop(c, "TeamAdded", Thrown)
       ELSE IF ExtractFields(message.fields) = "throws" THEN Drop(c, "TeamAdded", Thrown)
       ELSE IF ExtractFields(message.fields) = "undefined"
            THEN \/ Drop(c, "TeamAdded", Crashed)
                 \/ Drop(c, "TeamAdded", Thrown)
                 \/ ProcessTeamAddedEvent(c, "", "")
       ELSE ProcessTeamAddedEvent(c, message.fields[1], message.fields[2])

\* ScoreRegisteredConsumer::onMessage
ScoreRegisteredOnMessage(c, message) ==
    /\ alive[c]
    /\ work[c].pc = "idle"
    /\ IF message.kind = "bytes" THEN Drop(c, "ScoreRegistered", Ignored)
       ELSE IF message.kind = "malformed" THEN Drop(c, "ScoreRegistered", Thrown)
       ELSE IF message.kind = "array" THEN Drop(c, "ScoreRegistered", Thrown)
       ELSE IF ExtractFields(message.fields) = "throws"
            THEN Drop(c, "ScoreRegistered", Thrown)
       ELSE IF ExtractFields(message.fields) = "undefined"
            THEN \/ Drop(c, "ScoreRegistered", Crashed)
                 \/ Drop(c, "ScoreRegistered", Thrown)
                 \/ ProcessScoreRegisteredEvent(c, "", "")
       ELSE ProcessScoreRegisteredEvent(c, message.fields[1], message.fields[3])

ListenStores == {StoreB, StoreQ, StoreF}

InitListen == InitFrom(ListenStores)

NextListen ==
    \/ \E c \in Consumers, message \in TeamAddedMessages : TeamAddedOnMessage(c, message)
    \/ \E c \in Consumers, message \in ScoreRegisteredMessages :
          ScoreRegisteredOnMessage(c, message)
    \/ \E c \in Consumers, t \in {"T1", "T0"}, r \in ListenRounds : CallAdvanceWinners(c, t, r)

SpecListen == InitListen /\ [][NextListen]_vars

\* C24: no message stops the listeners: after handling any message the
\* handler has returned normally and the consumer goes on to the next event.
C24_ListenersSurvive ==
    [][last'.op \in Handlers => alive' = alive]_vars

\* the rounds a ScoreRegistered event leads to a generation step for, and
\* the rounds AdvanceWinners advances
GeneratingRounds == {"regular", "quarterfinals", "semifinals"}
AdvancedRounds == {"quarterfinals", "semifinals"}

\* the step taken handled a ScoreRegistered event of a round that is finals
\* or no round of the engine, and left the store as it was
TerminalEventIgnored ==
    (last'.op = "ScoreRegistered" /\ last'.round \notin GeneratingRounds)
       => /\ last'.call = "none"
          /\ last'.created = <<>>
          /\ matches' = matches
          /\ groups' = groups
          /\ tournaments' = tournaments
          /\ published' = published

\* C30: handling a ScoreRegistered event whose round is finals or any value
\* other than regular, quarterfinals or semifinals creates no match and
\* changes nothing in the store; AdvanceWinners called with such a round
\* creates no match and returns the error "Invalid round for advancement"
\* (for a tournament that does not exist the check before it answers
\* "Tournament doesn't exist").
C30_InvalidRound ==
    [][/\ TerminalEventIgnored
       /\ (last'.op = "AdvanceWinners" /\ last'.round \notin AdvancedRounds)
             => /\ last'.result = IF TournamentMissing(last'.tournamentId)
                                  THEN ErrTournament ELSE ErrInvalidRound
                /\ last'.created = <<>>
                /\ matches' = matches]_vars

\* AdvanceWinners called for the finals of a tournament whose semifinals are
\* played and whose final does not exist
C30_Witness ==
    /\ last.op = "AdvanceWinners"
    /\ last.round = "finals"
    /\ last.tournamentId = "T1"
    /\ last.result = ErrInvalidRound
    /\ Len(FindByTournamentIdAndRound(matches, "T1", "semifinals")) = 2
    /\ FindByTournamentIdAndRound(matches, "T1", "finals") = <<>>

----------------------------------------------------------------------------
(* GroupDelegate::UpdateTeams over the group table. The team table is not  *)
(* changed by the engine: it holds the teams of TeamTable.                 *)

TeamTable == 1..16
HardCapacity == 16

ErrCapacity == "Group at max capacity"
ErrTeamExists(team) == "Team " \o ToString(team) \o " already exist"
ErrTeamMissing(team) == "Team " \o ToString(team) \o " doesn't exist"

\* document->'teams' @> '{"id": team}': jsonb containment of an object in the
\* array of team objects. An array contains arrays and, as the one
\* exception, primitive values; it never contains an object, so the
\* condition is false for every roster.
JsonbContains(teams, team) == FALSE

FindByTournamentIdAndTeamId(gs, tournamentId, team) ==
    LET found == SelectSeq(gs, LAMBDA g : /\ g.tournamentId = tournamentId
                                          /\ JsonbContains(g.teams, team))
    IN  IF found = <<>> THEN NoGroup ELSE found[1]

\* appends the team to the roster of the row with the id
UpdateGroupAddTeam(gs, groupId, team) ==
    [i \in 1..Len(gs) |->
        IF gs[i].id = groupId THEN [gs[i] EXCEPT !.teams = Append(@, team)] ELSE gs[i]]

RECURSIVE AddTeams(_, _, _)
AddTeams(gs, groupId, teams) ==
    IF teams = <<>> THEN gs
    ELSE AddTeams(UpdateGroupAddTeam(gs, groupId, Head(teams)), groupId, Tail(teams))

\* the value UpdateTeams returns and the teams it has added when it returns
UpdateTeamsOutcome(gs, tournamentId, groupId, teams) ==
    LET group == FindByTournamentIdAndGroupId(gs, tournamentId, groupId)
        n == Len(teams)
        found == {i \in 1..n :
                    FindByTournamentIdAndTeamId(gs, tournamentId, teams[i]) # NoGroup}
        missing == {i \in 1..n : teams[i] \notin TeamTable}
        first(S) == CHOOSE i \in S : \A j \in S : i <= j
    IN  IF group = NoGroup THEN [result |-> ErrGroup, added |-> <<>>]
        ELSE IF Len(group.teams) + n >= HardCapacity
             THEN [result |-> ErrCapacity, added |-> <<>>]
        ELSE IF found # {}
             THEN [result |-> ErrTeamExists(teams[first(found)]), added |-> <<>>]
        ELSE IF missing # {}
             THEN [result |-> ErrTeamMissing(teams[first(missing)]),
                   added |-> SubSeq(teams, 1, first(missing) - 1)]
        ELSE [result |-> Ok, added |-> teams]

MaxRoster == 3

\* GroupDelegate::UpdateTeams, rosters followed up to `bound` teams
UpdateTeamsWithin(bound, tournamentId, groupId, teams) ==
    LET o == UpdateTeamsOutcome(groups, tournamentId, groupId, teams)
        after == AddTeams(groups, groupId, o.added)
    IN  /\ \A k \in 1..Len(after) : Len(after[k].teams) <= bound
        /\ groups' = after
        /\ last' = [Record("UpdateTeams", "none", tournamentId, groupId, "", o.result, <<>>)
                      EXCEPT !.teams = teams]
        /\ UNCHANGED <<tournaments, matches, published, alive, work>>

\* GroupDelegate::UpdateTeams; rosters are followed up to MaxRoster teams
UpdateTeams(tournamentId, groupId, teams) ==
    UpdateTeamsWithin(MaxRoster, tournamentId, groupId, teams)

----------------------------------------------------------------------------
(* SpecTeams: team registration in the groups of T2 (2 groups, at most 2   *)
(* teams per group), both groups created empty. Requests name one team,    *)
(* the same team twice, a team the team table does not hold, and sixteen   *)
(* teams at once; they name a group of T2, no group, or no tournament.     *)
(* TeamAdded events for the same groups reach the consumer in between, and *)
(* the standings of the groups are computed.                               *)

TeamLists == {<<1>>, <<2>>, <<1, 1>>, <<2, 99>>, PoolTeams}
TeamRequests == {<<"T2", "H1">>, <<"T2", "H2">>, <<"T2", "G0">>, <<"T0", "H1">>}

StoreTeams ==
    [tournaments |-> {Tournament("T2", 2, 2)},
     groups |-> <<Group("H1", "T2", <<>>), Group("H2", "T2", <<>>)>>,
     matches |-> <<>>]

InitTeams == InitFrom({StoreTeams})

NextTeams ==
    \/ \E e \in TeamRequests, teams \in TeamLists : UpdateTeams(e[1], e[2], teams)
    \/ \E c \in Consumers, e \in TeamRequests : ProcessTeamAddedEvent(c, e[1], e[2])
    \/ \E e \in TeamRequests : CallCalculateGroupStandings(e[1], e[2])

SpecTeams == InitTeams /\ [][NextTeams]_vars

\* the max teams per group of the tournament a group belongs to
CapacityOf(group) == ReadById(tournaments, group.tournamentId).maxTeamsPerGroup

\* C25: after any sequence of UpdateTeams calls no group holds more teams
\* than the max teams per group of its tournament's format; an addition that
\* would exceed it fails with the capacity error and adds no team.
C25_GroupCapacity ==
    [][last'.op = "UpdateTeams" =>
         /\ \A k \in 1..Len(groups') : Len(groups'[k].teams) <= CapacityOf(groups'[k])
         /\ \A k \in 1..Len(groups) :
               (/\ groups[k].id = last'.groupId
                /\ groups[k].tournamentId = last'.tournamentId
                /\ Len(groups[k].teams) + Len(last'.teams) > CapacityOf(groups[k]))
                  => (last'.result = ErrCapacity /\ groups' = groups)]_vars

\* C26: in every reachable state every match of the store, of whatever
\* round, has different home and visitor teams.
C26_NoSelfMatch == \A k \in 1..Len(matches) : matches[k].home # matches[k].visitor

----------------------------------------------------------------------------
(* Order of the rounds *)

\* the rows of ms holding the matches of a round of a tournament
RoundRows(ms, tournamentId, round) ==
    {k \in 1..Len(ms) : ms[k].tournamentId = tournamentId /\ ms[k].round = round}

\* the rows a step adds to the match table
NewRows == (Len(matches) + 1)..Len(matches')

\* C27: when a quarterfinal match is written, the store holds at least one
\* regular match of its tournament and every regular match of the tournament
\* is played: quarterfinals are not created while a regular match is pending
\* or while there is none.
C27_QuarterfinalsAfterRegular ==
    [][\A k \in NewRows :
         matches'[k].round = "quarterfinals"
         => LET regular == RoundRows(matches, matches'[k].tournamentId, "regular")
            IN  /\ regular # {}
                /\ \A r \in regular : matches[r].status = "played"
                /\ RoundRows(matches', matches'[k].tournamentId, "regular") = regular
                /\ \A r \in regular : matches'[r].status = "played"]_vars

\* quarterfinals were written by the last operation
C27_Witness ==
    /\ last.result = Ok
    /\ Len(last.created) = 4
    /\ \A i \in 1..4 : last.created[i].round = "quarterfinals"
    /\ RoundRows(matches, last.tournamentId, "quarterfinals") # {}
    /\ RoundRows(matches, last.tournamentId, "regular") # {}

\* the matches AdvanceWinners needs in a round before it creates the next one
MatchesNeeded(round) == IF round = "quarterfinals" THEN 4 ELSE 2

\* the round whose winners play the matches of a playoff round
RoundBefore(round) == IF round = "semifinals" THEN "quarterfinals" ELSE "semifinals"

\* the round rows of a tournament are enough and all played with a winner
RoundDecided(ms, tournamentId, round) ==
    LET rows == RoundRows(ms, tournamentId, round)
    IN  /\ Cardinality(rows) >= MatchesNeeded(round)
        /\ \A r \in rows : ms[r].status = "played" /\ GetWinnerId(ms[r]) # NoTeam

\* semifinals and finals in the store follow a decided round
RoundsInOrder ==
    \A k \in 1..Len(matches) :
        matches[k].round \in {"semifinals", "finals"}
        => RoundDecided(matches, matches[k].tournamentId, RoundBefore(matches[k].round))

\* C28: AdvanceWinners(T, r) creates matches of the next round only if the
\* store holds at least 4 (r = quarterfinals) or 2 (r = semifinals) matches
\* of round r for T and each of them is played and has a winner; when a
\* match of the round is still pending it returns success and creates
\* nothing. Hence semifinals exist only if all quarterfinals are played and a
\* final only if all semifinals are played.
C28_AdvanceAfterRound ==
    [][/\ \A k \in NewRows :
             matches'[k].round \in {"semifinals", "finals"}
             => /\ last'.call = "AdvanceWinners"
                /\ last'.tournamentId = matches'[k].tournamentId
                /\ last'.round = RoundBefore(matches'[k].round)
                /\ RoundDecided(matches, last'.tournamentId, last'.round)
       /\ (/\ last'.call = "AdvanceWinners"
           /\ last'.round \in AdvancedRounds
           /\ \E r \in RoundRows(matches, last'.tournamentId, last'.round) :
                 matches[r].status # "played")
          => (last'.result = Ok /\ last'.created = <<>> /\ matches' = matches)
       /\ RoundsInOrder']_vars

\* the final was created from two played semifinals, which stand on four
\* played quarterfinals
C28_Witness ==
    /\ last.call = "AdvanceWinners"
    /\ last.round = "semifinals"
    /\ Len(last.created) = 1
    /\ RoundRows(matches, last.tournamentId, "finals") # {}
    /\ RoundDecided(matches, last.tournamentId, "semifinals")
    /\ RoundDecided(matches, last.tournamentId, "quarterfinals")

----------------------------------------------------------------------------
(* Standings and roster *)

\* how often a team is named in a roster, and in a standings vector
TimesInRoster(roster, team) == Cardinality({j \in 1..Len(roster) : roster[j] = team})
TimesInStandings(v, team) == Cardinality({i \in 1..Len(v) : v[i].team = team})

\* C29: the standings of a group are a permutation of its roster: every
\* roster team has exactly one entry (all zero when it has played no match),
\* no entry is of a team outside the roster, and the tallies are those of the
\* played matches of the group only: goals added to both sides, one win to
\* the strictly higher scorer.
C29_StandingsOfRoster ==
    [][Ranked =>
         LET v == last'.standings
             g == last'.groupId
             roster == RosterOf(last')
         IN  /\ Len(v) = Len(roster)
             /\ \A j \in 1..Len(roster) :
                   TimesInStandings(v, roster[j]) = TimesInRoster(roster, roster[j])
             /\ \A i \in 1..Len(v) :
                   /\ v[i].team \in Range(roster)
                   /\ v[i].wins = Wins(v[i].team, g)
                   /\ v[i].goalsFor = GoalsFor(v[i].team, g)
                   /\ v[i].goalsAgainst = GoalsAgainst(v[i].team, g)
                   /\ v[i].goalDifference = GoalDifference(v[i].team, g)]_vars

----------------------------------------------------------------------------
(* SpecFrame: two tournaments in one store. T1 has four full groups: the   *)
(* round robins of G1, G2 and G3 are played, the TeamAdded event of G4 has *)
(* not been handled yet, so G4 has no match. T2 has H1 full and without    *)
(* matches and H2 short of a team. In a second initial store G4 holds one  *)
(* team only. TeamAdded events arrive for the groups, regular matches are  *)
(* scored, published events are delivered.                                 *)

StoreLate ==
    [tournaments |-> {Tournament("T1", 4, 2), Tournament("T2", 2, 2)},
     groups |-> <<Group("G1", "T1", <<1, 2>>), Group("G2", "T1", <<3, 4>>),
                  Group("G3", "T1", <<5, 6>>), Group("G4", "T1", <<7, 8>>),
                  Group("H1", "T2", <<1, 2>>), Group("H2", "T2", <<3>>)>>,
     matches |-> Stored(PlayedRoundRobin("T1", "G1", <<1, 2>>, LowerWins)
                        \o PlayedRoundRobin("T1", "G2", <<3, 4>>, LowerWins)
                        \o PlayedRoundRobin("T1", "G3", <<5, 6>>, LowerWins))]

\* the same store with G4 still a team short
StoreShort ==
    [StoreLate EXCEPT !.groups = [StoreLate.groups EXCEPT ![4] = Group("G4", "T1", <<7>>)]]

FrameEvents == {<<"T1", "G4">>, <<"T2", "H1">>, <<"T2", "H2">>, <<"T1", "G0">>}

InitFrame == InitFrom({StoreLate, StoreShort})

NextFrame ==
    \/ \E c \in Consumers, e \in FrameEvents : ProcessTeamAddedEvent(c, e[1], e[2])
    \/ \E c \in Consumers, e \in published :
          ProcessScoreRegisteredEvent(c, e.tournamentId, e.round)
    \/ \E k \in PendingRows(matches), s \in ScoreInputs :
          /\ matches[k].round = "regular"
          /\ UpdateScore(matches[k].tournamentId, k, s)

SpecFrame == InitFrame /\ [][NextFrame]_vars

\* C31: handling an event changes no tournament, no group and no match that
\* exists; every match it adds is of the event's tournament and, for a
\* TeamAdded event, of the event's group.
C31_EventFrame ==
    [][last'.op \in Handlers =>
         /\ tournaments' = tournaments
         /\ groups' = groups
         /\ Len(matches') >= Len(matches)
         /\ SubSeq(matches', 1, Len(matches)) = matches
         /\ \A k \in NewRows :
               /\ matches'[k].tournamentId = last'.tournamentId
               /\ last'.op = "TeamAdded" => matches'[k].groupId = last'.groupId]_vars

\* an event of T1 has created matches in a store that holds matches of T2
\* and of other groups of T1
C31_Witness ==
    /\ last.op \in Handlers
    /\ last.tournamentId = "T1"
    /\ last.created # <<>>
    /\ RoundRows(matches, "T2", "regular") # {}
    /\ \E k \in RoundRows(matches, "T1", "regular") : matches[k].groupId # last.groupId

\* C32: when quarterfinals are written every group of the tournament has its
\* round-robin matches in the store and all of them played, and once a
\* tournament has quarterfinals it has no pending regular match: none is
\* left, none is created.
C32_GroupStageComplete ==
    [][/\ \A k \in NewRows :
             matches'[k].round = "quarterfinals"
             => \A i \in 1..Len(groups) :
                   groups[i].tournamentId = matches'[k].tournamentId
                   => /\ ExistsByGroupId(matches, groups[i].id)
                      /\ \A r \in RoundRows(matches, groups[i].tournamentId, "regular") :
                            matches[r].status = "played"
       /\ \A t \in TournamentIds :
             RoundRows(matches', t, "quarterfinals") # {}
             => \A r \in RoundRows(matches', t, "regular") :
                   matches'[r].status = "played"]_vars

----------------------------------------------------------------------------
(* SpecRescore: the playoffs of T1 from the played quarterfinals on. Any   *)
(* quarterfinal or semifinal, played or not, receives scores; published    *)
(* events are delivered in any order and any number of times.              *)

PlayoffScores == {<<1, 0>>, <<0, 1>>}

\* the rows of the rounds whose winners advance
PlayoffRows(ms) == {k \in 1..Len(ms) : ms[k].round \in {"quarterfinals", "semifinals"}}

InitRescore == InitFrom({StoreS})

NextRescore ==
    \/ \E k \in PlayoffRows(matches), s \in PlayoffScores :
          UpdateScore(matches[k].tournamentId, k, s)
    \/ \E e \in published : ProcessScoreRegisteredEvent("c1", e.tournamentId, e.round)

SpecRescore == InitRescore /\ [][NextRescore]_vars

\* the teams that win a match of the round under the scores stored
WinnersOf(ms, tournamentId, round) ==
    {GetWinnerId(ms[r]) : r \in RoundRows(ms, tournamentId, round)} \ {NoTeam}

\* C33: in every reachable state each semifinal participant is the winner,
\* under the scores stored, of a quarterfinal of the same tournament, and
\* each finals participant is the winner of a semifinal.
C33_ParticipantsAreWinners ==
    \A k \in 1..Len(matches) :
        matches[k].round \in {"semifinals", "finals"}
        => {matches[k].home, matches[k].visitor}
              \subseteq WinnersOf(matches, matches[k].tournamentId,
                                  RoundBefore(matches[k].round))

----------------------------------------------------------------------------
(* SpecLive: tournament T1 with four full groups and one regular match     *)
(* still to play. The only steps are score recordings on pending matches   *)
(* and deliveries of published ScoreRegistered events, in any order and    *)
(* any number of times. Fairness: a pending match is not left without a    *)
(* valid score for ever, and a published event is not withheld for ever    *)
(* (the broker redelivers until a listener has taken the message).         *)

\* the scores sent for a match of the round: a win of either side or a draw
\* for a regular match, a home win or a draw for a playoff match
LiveScores(round) == IF round = "regular" THEN ScoreInputs ELSE {<<1, 0>>, <<1, 1>>}

\* UpdateScore on a pending match
ScorePending ==
    \E k \in PendingRows(matches) :
        \E s \in LiveScores(matches[k].round) : UpdateScore(matches[k].tournamentId, k, s)

\* a pending match receives a score that is accepted
ScoreAccepted == ScorePending /\ last'.result = Ok

\* a published event of the round reaches a listener
Deliver(round) ==
    \E e \in published :
        /\ e.round = round
        /\ ProcessScoreRegisteredEvent("c1", e.tournamentId, round)

InitLive == InitFrom({StoreA})

NextLive == ScorePending \/ \E r \in RoundInputs : Deliver(r)

SpecLive ==
    /\ InitLive
    /\ [][NextLive]_vars
    /\ WF_vars(ScoreAccepted)
    /\ \A r \in GeneratingRounds : WF_vars(Deliver(r))

\* C34: in a tournament with 4 full groups, when every match eventually gets
\* a valid score and every published ScoreRegistered event is eventually
\* delivered, the quarterfinals, the semifinals and the final are eventually
\* in the store, with no other trigger.
C34_Progress ==
    <>(/\ RoundRows(matches, "T1", "quarterfinals") # {}
       /\ RoundRows(matches, "T1", "semifinals") # {}
       /\ RoundRows(matches, "T1", "finals") # {})

\* the delivery of a semifinal event has created the final
C34_Witness ==
    /\ last.op = "ScoreRegistered"
    /\ last.round = "semifinals"
    /\ Len(last.created) = 1
    /\ RoundRows(matches, "T1", "finals") # {}

----------------------------------------------------------------------------
(* Standings positions read by GenerateQuarterfinals *)

\* the teams on the rosters of a tournament's groups
TeamsOf(gs, tournamentId) ==
    UNION {Range(gs[i].teams) : i \in {j \in 1..Len(gs) : gs[j].tournamentId = tournamentId}}

\* one of the first four groups of the tournament has fewer than 2 teams to rank
ShortGroup(gs, tournamentId) ==
    LET grps == FindByTournamentId(gs, tournamentId)
    IN  \E i \in 1..Min2(4, Len(grps)) : Cardinality(Range(grps[i].teams)) < 2

\* C36: GenerateQuarterfinals reads no standings position that does not
\* exist: with a group of fewer than 2 ranked teams among the first four it
\* returns an error and creates no quarterfinal, and the home and visitor of
\* every quarterfinal created are teams of the tournament's groups.
C36_NoMissingPosition ==
    [][last'.call = "GenerateQuarterfinals" =>
         /\ ShortGroup(groups, last'.tournamentId)
               => (last'.result \notin {Ok, Crashed, Thrown} /\ last'.created = <<>>)
         /\ \A i \in 1..Len(last'.created) :
               {last'.created[i].home, last'.created[i].visitor}
                  \subseteq TeamsOf(groups, last'.tournamentId)]_vars

----------------------------------------------------------------------------
(* The stage of a tournament, inferred from the match store: the group     *)
(* stage while a regular match is missing or pending, then for each        *)
(* playoff round "ready" (the round before is played, the round has no     *)
(* match) and "in progress" (it has matches, not all played), and complete *)
(* when the final is played.                                               *)

\* the stages in their order
Stages ==
    <<"GROUP_STAGE", "QF_READY", "QF_IN_PROGRESS", "SF_READY", "SF_IN_PROGRESS",
      "FINALS_READY", "FINALS_IN_PROGRESS", "COMPLETE">>

AllPlayed(ms, rows) == \A r \in rows : ms[r].status = "played"

Stage(ms, tournamentId) ==
    LET regular == RoundRows(ms, tournamentId, "regular")
        quarterfinals == RoundRows(ms, tournamentId, "quarterfinals")
        semifinals == RoundRows(ms, tournamentId, "semifinals")
        finals == RoundRows(ms, tournamentId, "finals")
    IN  IF regular = {} \/ ~AllPlayed(ms, regular) THEN "GROUP_STAGE"
        ELSE IF quarterfinals = {} THEN "QF_READY"
        ELSE IF ~AllPlayed(ms, quarterfinals) THEN "QF_IN_PROGRESS"
        ELSE IF semifinals = {} THEN "SF_READY"
        ELSE IF ~AllPlayed(ms, semifinals) THEN "SF_IN_PROGRESS"
        ELSE IF finals = {} THEN "FINALS_READY"
        ELSE IF ~AllPlayed(ms, finals) THEN "FINALS_IN_PROGRESS"
        ELSE "COMPLETE"

\* the place of a stage in the order
StageRank(stage) == CHOOSE i \in 1..Len(Stages) : Stages[i] = stage

\* C35: the stage of a tournament never moves backwards: no step takes a
\* tournament from a later stage to an earlier one.
C35_StageMonotone ==
    [][\A t \in TournamentIds :
         StageRank(Stage(matches', t)) >= StageRank(Stage(matches, t))]_vars

----------------------------------------------------------------------------
(* SpecFill: groups being filled. T3 has the default format (16 teams per  *)
(* group) and the group P1, T2 allows 2 teams per group and has H1; both   *)
(* groups start empty. A request adds the next one or two teams of the     *)
(* team table to a group, and TeamAdded events arrive for the groups.      *)
(* Fairness: as long as some addition would succeed, one is made.          *)

StoreFill ==
    [tournaments |-> {Tournament("T3", 1, 16), Tournament("T2", 2, 2)},
     groups |-> <<Group("P1", "T3", <<>>), Group("H1", "T2", <<>>)>>,
     matches |-> <<>>]

FillRequests == {<<"T3", "P1">>, <<"T2", "H1">>}

\* the next `count` teams of the team table after those of the roster
NextTeamsOf(roster, count) == [i \in 1..count |-> Len(roster) + i]

\* UpdateTeams with the next one or two teams for a group
FillGroup ==
    \E e \in FillRequests, count \in {1, 2} :
        LET group == FindByTournamentIdAndGroupId(groups, e[1], e[2])
        IN  UpdateTeamsWithin(HardCapacity, e[1], e[2], NextTeamsOf(group.teams, count))

\* an addition that succeeds
FillAccepted == FillGroup /\ last'.result = Ok

InitFill == InitFrom({StoreFill})

NextFill ==
    \/ FillGroup
    \/ \E e \in FillRequests : ProcessTeamAddedEvent("c1", e[1], e[2])

SpecFill == InitFill /\ [][NextFill]_vars /\ WF_vars(FillAccepted)

\* C37: a group can always be filled to capacity: for every format, the
\* default of 16 teams per group included, successful UpdateTeams calls
\* bring the group to exactly the max teams per group of its tournament.
C37_GroupFills ==
    \A k \in 1..Len(StoreFill.groups) :
        <>(Len(groups[k].teams) = CapacityOf(groups[k]))

----------------------------------------------------------------------------
(* Two events handled one after the other *)

\* the events delivered: TeamAdded for a group, ScoreRegistered for a round
Deliveries ==
    {[op |-> "TeamAdded", tournamentId |-> e[1], groupId |-> e[2], round |-> ""] :
        e \in FrameEvents}
    \cup {[op |-> "ScoreRegistered", tournamentId |-> t, groupId |-> "", round |-> r] :
            t \in {"T1", "T2"}, r \in RoundInputs}

\* the match tables a handler can leave when it handles event e on table ms
\* (ProcessTeamAddedEvent, ProcessScoreRegisteredEvent)
After(ms, e) ==
    IF e.op = "TeamAdded"
    THEN IF IsGroupReadyForMatches(tournaments, groups, ms, e.tournamentId, e.groupId)
         THEN {ms \o GenerateRoundRobinMatches(tournaments, groups, ms,
                                               e.tournamentId, e.groupId).created}
         ELSE {ms}
    ELSE IF e.round = "regular"
    THEN IF AreAllGroupMatchesCompleted(ms, e.tournamentId)
         THEN {ms \o o.created :
                  o \in GenerateQuarterfinals(tournaments, groups, ms, e.tournamentId)}
         ELSE {ms}
    ELSE IF e.round \in {"quarterfinals", "semifinals"}
    THEN {ms \o AdvanceWinners(tournaments, ms, e.tournamentId, e.round).created}
    ELSE {ms}

\* the sets of matches the store can hold after first, then second
AfterBoth(ms, first, second) ==
    {Range(m2) : m2 \in UNION {After(m1, second) : m1 \in After(ms, first)}}

\* C38: for any store state and any two events, handling them one after the
\* other in either order leaves the same set of matches in the store.
C38_OrderInsensitive ==
    \A e1, e2 \in Deliveries :
        AfterBoth(matches, e1, e2) = AfterBoth(matches, e2, e1)

----------------------------------------------------------------------------
(* Rosters after UpdateTeams *)

\* C39: no team appears more than once in a group's roster and no team
\* belongs to two groups of the same tournament.
C39_TeamOnce ==
    \A k \in 1..Len(groups) :
        \A team \in Range(groups[k].teams) :
            /\ TimesInRoster(groups[k].teams, team) = 1
            /\ \A j \in 1..Len(groups) :
                  (j # k /\ groups[j].tournamentId = groups[k].tournamentId)
                      => team \notin Range(groups[j].teams)

====
